---- MODULE Spec2Model ----
(***************************************************************************)
(* Portfolio consolidator: cell utilities (portfolio_utils.py), template   *)
(* extractors (extractors.py), consolidation engine (engine.py) and the    *)
(* unified report table (report.py).                                       *)
(*                                                                         *)
(* Text is a sequence of one-character strings.  Numbers are exact         *)
(* rationals <<n, d>> with d > 0 in lowest terms; <<0, 0>> is NaN and      *)
(* <<1, 0>>, <<-1, 0>> are the infinities.  Floating-point rounding is not *)
(* modelled.                                                               *)
(***************************************************************************)
EXTENDS Integers, Sequences, FiniteSets, TLC

VARIABLES arg, fn, ret, files, fx, pc, out, report

vars == <<arg, fn, ret, files, fx, pc, out, report>>

(***************************************************************************)
(* Bounds                                                                  *)
(***************************************************************************)
MaxTxtLen == 3

(***************************************************************************)
(* Numbers                                                                 *)
(***************************************************************************)
NaN == <<0, 0>>
PosInf == <<1, 0>>
NegInf == <<-1, 0>>

IsNaN(v) == v = NaN

Abs(n) == IF n < 0 THEN -n ELSE n

RECURSIVE GCD(_, _)
GCD(a, b) == IF b = 0 THEN a ELSE GCD(b, a % b)

RECURSIVE Pow10(_)
Pow10(k) == IF k <= 0 THEN 1 ELSE 10 * Pow10(k - 1)

\* n/d in lowest terms, d > 0
Norm(n, d) ==
    IF n = 0 THEN <<0, 1>>
    ELSE LET g == GCD(Abs(n), Abs(d))
             sg == IF d < 0 THEN -1 ELSE 1
         IN <<sg * (n \div g), sg * (d \div g)>>

Rat(n) == <<n, 1>>

IsFinite(v) == v[2] > 0

RNeg(v) == <<-v[1], v[2]>>

\* IEEE-style arithmetic on the extended rationals
RMul(a, b) ==
    IF IsNaN(a) \/ IsNaN(b) THEN NaN
    ELSE IF ~IsFinite(a) \/ ~IsFinite(b)
         THEN IF a[1] = 0 \/ b[1] = 0 THEN NaN
              ELSE IF (a[1] > 0) = (b[1] > 0) THEN PosInf ELSE NegInf
    ELSE Norm(a[1] * b[1], a[2] * b[2])

RAdd(a, b) ==
    IF IsNaN(a) \/ IsNaN(b) THEN NaN
    ELSE IF ~IsFinite(a) /\ ~IsFinite(b) THEN (IF a = b THEN a ELSE NaN)
    ELSE IF ~IsFinite(a) THEN a
    ELSE IF ~IsFinite(b) THEN b
    ELSE Norm(a[1] * b[2] + b[1] * a[2], a[2] * b[2])

\* a / b for non-zero b
RDiv(a, b) ==
    IF IsNaN(a) \/ IsNaN(b) THEN NaN
    ELSE IF ~IsFinite(a) /\ ~IsFinite(b) THEN NaN
    ELSE IF ~IsFinite(a) THEN (IF (a[1] > 0) = (b[1] > 0) THEN PosInf ELSE NegInf)
    ELSE IF ~IsFinite(b) THEN <<0, 1>>
    ELSE Norm(a[1] * b[2], a[2] * b[1])

\* a < b, false when either is NaN
RLess(a, b) ==
    IF IsNaN(a) \/ IsNaN(b) THEN FALSE
    ELSE IF ~IsFinite(a) THEN a = NegInf /\ b # NegInf
    ELSE IF ~IsFinite(b) THEN b = PosInf
    ELSE a[1] * b[2] < b[1] * a[2]

RLeq(a, b) == ~IsNaN(a) /\ ~IsNaN(b) /\ ~RLess(b, a)

RAbs(v) == <<Abs(v[1]), v[2]>>

(***************************************************************************)
(* Text                                                                    *)
(***************************************************************************)
NBSP == "NBSP"
Whitespace == {" ", NBSP}
Digits == {"0","1","2","3","4","5","6","7","8","9"}
LowerLetters ==
    <<"a","b","c","d","e","f","g","h","i","j","k","l","m","n","o","p","q","r","s","t","u","v","w","x","y","z">>
UpperLetters ==
    <<"A","B","C","D","E","F","G","H","I","J","K","L","M","N","O","P","Q","R","S","T","U","V","W","X","Y","Z">>

Range(f) == {f[i] : i \in DOMAIN f}

LowerSet == Range(LowerLetters)
UpperSet == Range(UpperLetters)

\* str.lower() and str.upper() on the letters, tabulated
LowerMap == [c \in UpperSet |-> LowerLetters[CHOOSE i \in 1..26 : UpperLetters[i] = c]]
UpperMap == [c \in LowerSet |-> UpperLetters[CHOOSE i \in 1..26 : LowerLetters[i] = c]]

DigitVal(c) ==
    CASE c = "0" -> 0 [] c = "1" -> 1 [] c = "2" -> 2 [] c = "3" -> 3
      [] c = "4" -> 4 [] c = "5" -> 5 [] c = "6" -> 6 [] c = "7" -> 7
      [] c = "8" -> 8 [] c = "9" -> 9

DigitChar(k) == <<"0","1","2","3","4","5","6","7","8","9">>[k + 1]

LowerChar(c) == IF c \in UpperSet THEN LowerMap[c] ELSE c

UpperChar(c) == IF c \in LowerSet THEN UpperMap[c] ELSE c

\* the same sequence, as an explicit tuple
Eager(s) == <<>> \o s

\* a local variable: the value is computed once and the rest runs with it
Let(v, Rest(_)) == Rest(v)

Lower(s) == Eager([i \in 1..Len(s) |-> LowerChar(s[i])])
Upper(s) == Eager([i \in 1..Len(s) |-> UpperChar(s[i])])

Last(s) == s[Len(s)]

\* str.strip()
Strip(s) ==
    IF \A i \in 1..Len(s) : s[i] \in Whitespace THEN <<>>
    ELSE LET a == CHOOSE i \in 1..Len(s) :
                      s[i] \notin Whitespace /\ \A j \in 1..(i - 1) : s[j] \in Whitespace
             b == CHOOSE i \in 1..Len(s) :
                      s[i] \notin Whitespace /\ \A j \in (i + 1)..Len(s) : s[j] \in Whitespace
         IN SubSeq(s, a, b)

\* re.sub(r"[^...]", "", s): keep the characters of the class
Keep(s, class) == SelectSeq(s, LAMBDA c : c \in class)

\* str.replace(c, "") for a single character
RemoveChar(s, ch) == SelectSeq(s, LAMBDA c : c # ch)

\* str.replace(a, b) for single characters
ReplaceChar(s, a, b) == Eager([i \in 1..Len(s) |-> IF s[i] = a THEN b ELSE s[i]])

IsPrefix(p, s) == Len(p) <= Len(s) /\ SubSeq(s, 1, Len(p)) = p

\* str.replace(pat, ""): leftmost non-overlapping occurrences
RECURSIVE RemoveSub(_, _)
RemoveSub(s, pat) ==
    IF Len(s) < Len(pat) THEN s
    ELSE IF IsPrefix(pat, s) THEN RemoveSub(SubSeq(s, Len(pat) + 1, Len(s)), pat)
    ELSE <<Head(s)>> \o RemoveSub(Tail(s), pat)

\* pat in s
Contains(s, pat) ==
    \E i \in 1..(Len(s) - Len(pat) + 1) : s[i] = pat[1] /\ SubSeq(s, i, i + Len(pat) - 1) = pat

\* the concatenation of a sequence of sequences
RECURSIVE Concat(_)
Concat(ss) == IF ss = <<>> THEN <<>> ELSE Head(ss) \o Concat(Tail(ss))

RECURSIVE DigitsToNat(_)
DigitsToNat(s) ==
    IF s = <<>> THEN 0 ELSE 10 * DigitsToNat(SubSeq(s, 1, Len(s) - 1)) + DigitVal(Last(s))

RECURSIVE NatToChars(_)
NatToChars(n) ==
    IF n < 10 THEN <<DigitChar(n)>> ELSE NatToChars(n \div 10) \o <<DigitChar(n % 10)>>

IntToChars(n) == IF n < 0 THEN <<"-">> \o NatToChars(-n) ELSE NatToChars(n)

(***************************************************************************)
(* Cells: the values pandas hands over for a spreadsheet cell              *)
(***************************************************************************)
None == [t |-> "none", s |-> <<>>, n |-> 0, d |-> 0]
Txt(s) == [t |-> "str", s |-> s, n |-> 0, d |-> 0]
IntCell(n) == [t |-> "int", s |-> <<>>, n |-> n, d |-> 1]
\* a Python int whose magnitude exceeds the largest double
HugeInt == [t |-> "hugeint", s |-> <<>>, n |-> 1, d |-> 1]
FloatCell(v) == [t |-> "float", s |-> <<>>, n |-> v[1], d |-> v[2]]
BoolCell(b) == [t |-> "bool", s |-> <<>>, n |-> IF b THEN 1 ELSE 0, d |-> 1]
\* datetime 2024-01-05 00:00:00
DateCell == [t |-> "date", s |-> <<>>, n |-> 0, d |-> 0]

\* number of decimal places of a terminating decimal with denominator d
DecPlaces(d) == CHOOSE k \in 0..9 : Pow10(k) % d = 0 /\ \A j \in 0..(k - 1) : Pow10(j) % d # 0

\* repr of a float with a short terminating decimal expansion
FloatToChars(v) ==
    IF IsNaN(v) THEN <<"n","a","n">>
    ELSE IF v = PosInf THEN <<"i","n","f">>
    ELSE IF v = NegInf THEN <<"-","i","n","f">>
    ELSE LET k == DecPlaces(v[2])
             scaled == Abs(v[1]) * (Pow10(k) \div v[2])
             ip == scaled \div Pow10(k)
             fp == scaled % Pow10(k)
             fdigits == NatToChars(fp)
             pad == [i \in 1..(k - Len(fdigits)) |-> "0"]
         IN (IF v[1] < 0 THEN <<"-">> ELSE <<>>) \o NatToChars(ip) \o <<".">>
               \o (IF k = 0 THEN <<"0">> ELSE pad \o fdigits)

\* str(x)
Str(x) ==
    CASE x.t = "str" -> x.s
      [] x.t = "none" -> <<"N","o","n","e">>
      [] x.t = "int" -> IntToChars(x.n)
      [] x.t = "hugeint" -> <<"1">> \o [i \in 1..9 |-> "0"]   \* stands for 300+ digits
      [] x.t = "float" -> FloatToChars(<<x.n, x.d>>)
      [] x.t = "bool" -> IF x.n = 1 THEN <<"T","r","u","e">> ELSE <<"F","a","l","s","e">>
      [] x.t = "date" -> <<"2","0","2","4","-","0","1","-","0","5"," ","0","0",":","0","0",":","0","0">>

normalize_str(x) ==
    IF x.t = "none" THEN <<>>
    ELSE Strip(ReplaceChar(Str(x), NBSP, " "))

(***************************************************************************)
(* float(s) of Python on text; any failure is NaN here because both calls  *)
(* in coerce_number sit inside try/except Exception.                       *)
(***************************************************************************)
\* every "_" stands between two digits
UnderscoresOK(s) ==
    \A i \in 1..Len(s) : s[i] = "_" =>
        /\ i > 1 /\ i < Len(s)
        /\ s[i - 1] \in Digits /\ s[i + 1] \in Digits

\* digits with at most one ".", at least one digit
ParseMantissa(m0) ==
    LET m == RemoveChar(m0, "_")
        dots == {i \in 1..Len(m) : m[i] = "."}
        ds == Keep(m, Digits)
        k == IF dots = {} THEN 0 ELSE Len(m) - (CHOOSE i \in dots : TRUE)
    IN IF UnderscoresOK(m0) /\ (\A i \in 1..Len(m) : m[i] \in Digits \cup {"."})
          /\ Cardinality(dots) <= 1 /\ Len(ds) >= 1
       THEN [ok |-> TRUE, n |-> DigitsToNat(ds), k |-> k]
       ELSE [ok |-> FALSE, n |-> 0, k |-> 0]

\* optional sign then digits
ParseExponent(e0) ==
    LET signed == Len(e0) > 0 /\ e0[1] \in {"-", "+"}
        body0 == IF signed THEN Tail(e0) ELSE e0
        body == RemoveChar(body0, "_")
    IN IF UnderscoresOK(body0) /\ Len(body) >= 1 /\ (\A i \in 1..Len(body) : body[i] \in Digits)
       THEN [ok |-> TRUE, e |-> IF signed /\ e0[1] = "-" THEN -DigitsToNat(body) ELSE DigitsToNat(body)]
       ELSE [ok |-> FALSE, e |-> 0]

\* mantissa * 10^exponent
Magnitude(mant, expo) ==
    IF expo.e >= mant.k
    THEN Norm(mant.n * Pow10(expo.e - mant.k), 1)
    ELSE Norm(mant.n, Pow10(mant.k - expo.e))

\* the value of the text after the sign
UnsignedFloat(body) ==
    LET es == {i \in 1..Len(body) : body[i] = "e"}
        epos == IF es = {} THEN Len(body) + 1 ELSE CHOOSE i \in es : \A j \in es : i <= j
    IN IF body = <<"n","a","n">> THEN NaN
       ELSE IF body \in {<<"i","n","f">>, <<"i","n","f","i","n","i","t","y">>} THEN PosInf
       ELSE Let(ParseMantissa(SubSeq(body, 1, epos - 1)), LAMBDA mant :
            Let(IF es = {} THEN [ok |-> TRUE, e |-> 0]
                ELSE ParseExponent(SubSeq(body, epos + 1, Len(body))), LAMBDA expo :
                IF mant.ok /\ expo.ok THEN Magnitude(mant, expo) ELSE NaN))

PyFloat(s0) ==
    Let(Lower(Strip(s0)), LAMBDA s :
        LET signed == Len(s) > 0 /\ s[1] \in {"-", "+"}
        IN Let(UnsignedFloat(IF signed THEN Tail(s) ELSE s), LAMBDA mag :
               IF signed /\ s[1] = "-" THEN RNeg(mag) ELSE mag))

(***************************************************************************)
(* portfolio_utils.coerce_number                                           *)
(***************************************************************************)
NumClass == Digits \cup {".", "-", "(", ")"}

Returned(v) == [exc |-> "none", val |-> v, txt |-> <<>>]
ReturnedTxt(s) == [exc |-> "none", val |-> NaN, txt |-> s]
Raised(e) == [exc |-> e, val |-> NaN, txt |-> <<>>]

\* the parentheses are dropped without the minus sign
Unparen_NoSign(s) ==
    IF Head(s) = "(" /\ Last(s) = ")" THEN SubSeq(s, 2, Len(s) - 1) ELSE s

\* s = "-" + s[1:-1] when s is wrapped in parentheses
Unparen(s) ==
    IF Head(s) = "(" /\ Last(s) = ")" THEN <<"-">> \o SubSeq(s, 2, Len(s) - 1) ELSE s

coerce_number(x) ==
    IF x.t = "none" THEN Returned(NaN)
    ELSE IF x.t = "hugeint" THEN Raised("OverflowError")      \* float(x) outside any try
    ELSE IF x.t \in {"int", "float", "bool"} THEN Returned(<<x.n, x.d>>)
    ELSE Let(normalize_str(x), LAMBDA s :
             LET s1 == RemoveChar(s, ",")
                 s2 == Keep(s1, NumClass)
             IN IF s = <<>> THEN Returned(NaN)
                ELSE IF Len(s1) > 0 /\ Last(s1) = "%"
                     THEN Returned(PyFloat(SubSeq(s1, 1, Len(s1) - 1)))
                ELSE IF s2 = <<>> THEN Returned(NaN)
                ELSE Returned(PyFloat(Unparen(s2))))

(***************************************************************************)
(* portfolio_utils.clean_ticker                                            *)
(***************************************************************************)
junk ==
    {<<"N","A","N">>,
     <<"G","R","O","U","P">>,
     <<"N","A","M","E">>,
     <<"T","O","T","A","L">>,
     <<"S","U","M","M","A","R","Y">>,
     <<"G","R","O","U","P","S","U","M","M","A","R","Y">>,
     <<"N","A","V">>,
     <<"S","T","O","C","K","S">>,
     <<"T","O","T","A","L","C","A","S","H">>,
     <<"T","O","T","A","L","N","A","V">>,
     <<"C","A","S","H">>,
     <<"P","U","R","C","H","A","S","I","N","G","P","O","W","E","R">>,
     <<"M","V">>,
     <<"W","E","I","G","H","T">>,
     <<"Q","U","A","N","T","I","T","Y">>,
     <<"N","E","T">>}

Placeholders == {<<"n","a","n">>, <<"n","o","n","e">>, <<"n","u","l","l">>}

TickerClass == UpperSet \cup Digits \cup {"-", "_"}

\* the cleaned text is returned without looking it up in the denylist
clean_ticker_NoDenylist(x) ==
    Let(normalize_str(x), LAMBDA s :
        LET s1 == Upper(RemoveSub(s, <<".","C","A">>))
            s2 == Keep(s1, TickerClass)
        IN IF s = <<>> \/ Lower(Strip(s)) \in Placeholders THEN <<>> ELSE s2)

clean_ticker(x) ==
    Let(normalize_str(x), LAMBDA s :
        LET s1 == Upper(RemoveSub(s, <<".","C","A">>))
            s2 == Keep(s1, TickerClass)
        IN IF s = <<>> \/ Lower(Strip(s)) \in Placeholders THEN <<>>
           ELSE IF s2 \in junk THEN <<>>
           ELSE s2)

(***************************************************************************)
(* Data frames read with header=None, dtype=object, NaN replaced by None:  *)
(* nrows x ncols cells, 0-based; cells not listed are None.                *)
(***************************************************************************)
InBounds(df, r, c) == r >= 0 /\ r < df.nrows /\ c >= 0 /\ c < df.ncols

\* df.iat[r, c] for a position inside the frame
Iat(df, r, c) == IF <<r, c>> \in DOMAIN df.cells THEN df.cells[<<r, c>>] ELSE None

\* coerce_number on the cells of a sheet (sheets hold no oversized integers)
CoerceVal(x) == coerce_number(x).val

NoCell == <<-1, -1>>

RowMajorLeq(p, q) == p[1] < q[1] \/ (p[1] = q[1] /\ p[2] <= q[2])

WordChars == LowerSet \cup UpperSet \cup Digits \cup {"_"}

\* re.search(r"\bword\b", s, IGNORECASE) for a lower-case word
MatchWord(s, word) ==
    Let(Lower(s), LAMBDA l :
        \E i \in 1..(Len(l) - Len(word) + 1) :
           /\ SubSeq(l, i, i + Len(word) - 1) = word
           /\ (i = 1 \/ l[i - 1] \notin WordChars)
           /\ (i + Len(word) > Len(l) \/ l[i + Len(word)] \notin WordChars))

\* re.search(r"a\s*b", s, IGNORECASE) for lower-case a and b; b starts with a
\* letter, so it must follow the whole run of whitespace after a
MatchSpaced(s, a, b) ==
    Let(Lower(s), LAMBDA l :
        \E i \in 1..(Len(l) - Len(a) - Len(b) + 1) :
           /\ l[i] = a[1]
           /\ SubSeq(l, i, i + Len(a) - 1) = a
           /\ \E j \in (i + Len(a))..(Len(l) - Len(b) + 1) :
                 /\ l[j] = b[1]
                 /\ \A k \in (i + Len(a))..(j - 1) : l[k] \in Whitespace
                 /\ SubSeq(l, j, j + Len(b) - 1) = b)

\* substring test on the lower-cased text
ContainsLower(s, pat) == Contains(Lower(s), pat)

MatchConsolidated(s) == MatchWord(s, <<"c","o","n","s","o","l","i","d","a","t","e","d">>)

MatchGroupSummary(s) == MatchSpaced(s, <<"g","r","o","u","p">>, <<"s","u","m","m","a","r","y">>)

MatchPurchasingPower(s) ==
    \/ MatchSpaced(s, <<"p","u","r","c","h","a","s","i","n","g">>, <<"p","o","w","e","r">>)
    \/ MatchSpaced(s, <<"b","u","y","i","n","g">>, <<"p","o","w","e","r">>)
    \/ MatchSpaced(s, <<"p","u","r","c","h","a","s","e">>, <<"p","o","w","e","r">>)

MatchClient(s) == ContainsLower(s, <<"e","m","a","d"," ","f","a","r","a","h">>)

\* the patterns handed to find_cell
ConsolidatedPattern == "Consolidated"
GroupSummaryPattern == "Group Summary"
PurchasingPowerPattern == "Purchasing Power"
ClientPattern == "Emad Farah"

\* re.search(pattern, s, flags=re.IGNORECASE)
Search(pattern, s) ==
    CASE pattern = ConsolidatedPattern -> MatchConsolidated(s)
      [] pattern = GroupSummaryPattern -> MatchGroupSummary(s)
      [] pattern = PurchasingPowerPattern -> MatchPurchasingPower(s)
      [] pattern = ClientPattern -> MatchClient(s)

\* first cell in row-major order, among the given rows, whose text matches
find_cell_in(df, rows, pattern) ==
    LET hits == {p \in DOMAIN df.cells :
                    /\ InBounds(df, p[1], p[2])
                    /\ p[1] \in rows
                    /\ df.cells[p].t # "none"
                    /\ Let(normalize_str(df.cells[p]), LAMBDA s : s # <<>> /\ Search(pattern, s))}
    IN IF hits = {} THEN NoCell
       ELSE CHOOSE p \in hits : \A q \in hits : RowMajorLeq(p, q)

\* portfolio_utils.find_cell
find_cell(df, pattern) == find_cell_in(df, 0..(df.nrows - 1), pattern)

MaxSteps == 10
MaxRadius == 8
MinValue == <<1000, 1>>

\* extractors._value_to_right: first numeric cell in the next max_steps columns
value_to_right(df, r, c) ==
    Let([dc \in {e \in 1..MaxSteps : c + e < df.ncols} |-> CoerceVal(Iat(df, r, c + dc))] @@ <<>>,
        LAMBDA v :
            LET hits == {dc \in DOMAIN v : ~IsNaN(v[dc])}
            IN IF hits = {} THEN NaN
               ELSE v[CHOOSE dc \in hits : \A e \in hits : dc <= e])

\* the offset is scanned before q: rows outermost, columns innermost
ScanLeq(o, q) == RowMajorLeq(o, q)

\* the offsets (dr, dc) of the box around (r, c) that fall inside the sheet
Box(df, r, c, max_radius) ==
    {o \in {<<p[1] - r, p[2] - c>> : p \in DOMAIN df.cells} :
        /\ Abs(o[1]) <= max_radius /\ Abs(o[2]) <= max_radius
        /\ InBounds(df, r + o[1], c + o[2])}

\* a later cell at the same distance replaces the earlier one
choose_nearest_LastWins(df, r, c, min_value, max_radius) ==
    Let([o \in Box(df, r, c, max_radius) |-> CoerceVal(Iat(df, r + o[1], c + o[2]))] @@ <<>>,
        LAMBDA V :
            LET cand == {o \in DOMAIN V : ~IsNaN(V[o])}
                D(o) == Abs(o[1]) + Abs(o[2])
                Best(S) == CHOOSE o \in S : \A q \in S : D(o) < D(q) \/ (D(o) = D(q) /\ ScanLeq(q, o))
                big == {o \in cand : RLeq(min_value, RAbs(V[o]))}
            IN IF big # {} THEN V[Best(big)]
               ELSE IF cand # {} THEN V[Best(cand)]
               ELSE NaN)

\* portfolio_utils.choose_nearest_numeric_threshold
choose_nearest_numeric_threshold(df, r, c, min_value, max_radius) ==
    Let([o \in Box(df, r, c, max_radius) |-> CoerceVal(Iat(df, r + o[1], c + o[2]))] @@ <<>>,
        LAMBDA V :
            LET cand == {o \in DOMAIN V : ~IsNaN(V[o])}
                D(o) == Abs(o[1]) + Abs(o[2])
                \* d < best_d keeps the first cell met at the smallest distance
                Best(S) == CHOOSE o \in S : \A q \in S : D(o) < D(q) \/ (D(o) = D(q) /\ ScanLeq(o, q))
                big == {o \in cand : RLeq(min_value, RAbs(V[o]))}
            IN IF big # {} THEN V[Best(big)]
               ELSE IF cand # {} THEN V[Best(cand)]
               ELSE NaN)

\* the Python None handed over where a number is expected
NoneArg == <<>>

\* the boundaries -1.2 and 1.2 are taken for percentages
safe_percent_to_ratio_OpenInterval(v) ==
    IF v = NoneArg \/ IsNaN(v) THEN NaN
    ELSE IF RLess(<<-6, 5>>, v) /\ RLess(v, <<6, 5>>) THEN v
    ELSE RMul(v, <<1, 100>>)

\* portfolio_utils.safe_percent_to_ratio
safe_percent_to_ratio(v) ==
    IF v = NoneArg \/ IsNaN(v) THEN NaN
    ELSE IF RLeq(<<-6, 5>>, v) /\ RLeq(v, <<6, 5>>) THEN v
    ELSE RMul(v, <<1, 100>>)

(***************************************************************************)
(* Data frames read with header=<row>: the header row names the columns,   *)
(* the rows below are the data, empty cells are NaN and a column holding   *)
(* only numbers and gaps is a float column.  A data row keeps the label    *)
(* idx = its position below the header.                                    *)
(***************************************************************************)
UnnamedCol(c) == <<"U","n","n","a","m","e","d",":"," ">> \o NatToChars(c)

ColumnName(df, header_row, c) ==
    IF Iat(df, header_row, c).t = "none" THEN UnnamedCol(c) ELSE Str(Iat(df, header_row, c))

\* type inference of the data block: a column of numbers and gaps only is a
\* float column as soon as it has a gap or a float
FloatColumns(df, header_row) ==
    {c \in 0..(df.ncols - 1) :
        LET col == {Iat(df, q, c) : q \in (header_row + 1)..(df.nrows - 1)}
        IN /\ \A y \in col : y.t \in {"none", "int", "float"}
           /\ \E y \in col : y.t \in {"none", "float"}}

InferCell(x, floating) ==
    IF x.t = "none" THEN FloatCell(NaN)
    ELSE IF x.t = "int" /\ floating THEN FloatCell(<<x.n, 1>>)
    ELSE x

read_with_header(df, header_row) ==
    LET fcols == FloatColumns(df, header_row)
    IN [names |-> Eager([c \in 1..df.ncols |-> ColumnName(df, header_row, c - 1)]),
        rows |-> Eager([k \in 1..(df.nrows - header_row - 1) |->
                    [idx |-> k - 1,
                     cells |-> Eager([c \in 1..df.ncols |->
                                  InferCell(Iat(df, header_row + k, c - 1), (c - 1) \in fcols)])]])]

IsBlank(x) == Let(normalize_str(x), LAMBDA t : t = <<>> \/ Lower(t) = <<"n","a","n">>)

\* portfolio_utils.trim_empty_rows: df.loc[mask] keeps the rows with a non-blank cell
trim_empty_rows(sub) ==
    [sub EXCEPT !.rows = SelectSeq(sub.rows,
                            LAMBDA row : \E c \in 1..Len(row.cells) : ~IsBlank(row.cells[c]))]

(***************************************************************************)
(* Ordering of text (code points) and sorting                              *)
(***************************************************************************)
AsciiOrder ==
    <<" ", "%", "&", "(", ")", ",", "-", ".", "/",
      "0","1","2","3","4","5","6","7","8","9", ":", ">",
      "A","B","C","D","E","F","G","H","I","J","K","L","M","N","O","P","Q","R","S","T","U","V","W","X","Y","Z",
      "_",
      "a","b","c","d","e","f","g","h","i","j","k","l","m","n","o","p","q","r","s","t","u","v","w","x","y","z",
      NBSP>>

OrdMap == [c \in Range(AsciiOrder) |-> CHOOSE i \in 1..Len(AsciiOrder) : AsciiOrder[i] = c]

Ord(c) == OrdMap[c]

Min(a, b) == IF a <= b THEN a ELSE b

\* a < b for Python strings
StrLess(a, b) ==
    LET diff == {i \in 1..Min(Len(a), Len(b)) : a[i] # b[i]}
    IN IF diff = {} THEN Len(a) < Len(b)
       ELSE LET i == CHOOSE j \in diff : \A k \in diff : j <= k
            IN Ord(a[i]) < Ord(b[i])

\* the elements of a finite set in increasing order of a strict total order
SortSet(S, Less(_, _)) ==
    Eager([i \in 1..Cardinality(S) |-> CHOOSE x \in S : Cardinality({y \in S : Less(y, x)}) = i - 1])

\* the distinct elements of a sequence, in order of first appearance
Unique(q) ==
    LET firsts == {i \in 1..Len(q) : \A j \in 1..(i - 1) : q[j] # q[i]}
    IN Eager([k \in 1..Cardinality(firsts) |->
                 q[CHOOSE i \in firsts : Cardinality({j \in firsts : j < i}) = k - 1]])

\* Series.sum(): NaN entries are skipped, an all-NaN or empty series sums to 0
RECURSIVE NanSum(_)
NanSum(q) ==
    IF q = <<>> THEN <<0, 1>>
    ELSE IF IsNaN(Head(q)) THEN NanSum(Tail(q))
    ELSE RAdd(Head(q), NanSum(Tail(q)))

(***************************************************************************)
(* Tables handed from the extractors to the engine                         *)
(***************************************************************************)
SummaryCols == <<"group", "portfolio", "nav", "cash", "purchasing_power", "source", "as_of">>
HoldingsCols == <<"group", "portfolio", "ticker", "weight_ratio">>
TotalsCols == <<"group", "portfolio", "total_nav", "total_cash", "total_purchasing_power">>

Table(cols, rows) == [cols |-> cols, rows |-> rows]

\* pd.DataFrame(list of dicts): no column at all when the list is empty
FrameOf(cols, rows) == IF rows = <<>> THEN Table(<<>>, <<>>) ELSE Table(cols, rows)

SummaryRow(g, p, nav, cash, pp, src) ==
    [group |-> g, portfolio |-> p, nav |-> nav, cash |-> cash, purchasing_power |-> pp,
     source |-> src, as_of |-> "None"]

TotalsRow(g, p, nav, cash, pp) ==
    [group |-> g, portfolio |-> p, total_nav |-> nav, total_cash |-> cash,
     total_purchasing_power |-> pp]

HoldingRow(g, p, t, w) == [group |-> g, portfolio |-> p, ticker |-> t, weight_ratio |-> w]

Extracted(summ, hold, tot) == [exc |-> "none", summary |-> summ, holdings |-> hold, totals |-> tot]
ExtractRaised(e) ==
    [exc |-> e, summary |-> Table(<<>>, <<>>), holdings |-> Table(<<>>, <<>>),
     totals |-> Table(<<>>, <<>>)]

\* the rows of the holdings block turned into holdings records:
\* clean_ticker, safe_percent_to_ratio(coerce_number), empty tickers dropped
HoldingsFrom(rows, tcol, wcol, g, p) ==
    LET recs == Eager([k \in 1..Len(rows) |->
                    HoldingRow(g, p, clean_ticker(rows[k].cells[tcol]),
                               safe_percent_to_ratio(CoerceVal(rows[k].cells[wcol])))])
    IN SelectSeq(recs, LAMBDA h : Len(h.ticker) > 0)

\* the lower-cased texts of the non-None cells of a sheet
LowerTexts(df) ==
    [p \in {q \in DOMAIN df.cells : df.cells[q].t # "none"} |-> Lower(normalize_str(df.cells[p]))]
      @@ <<>>

\* those of one row
RowTexts(texts, r) == {texts[p] : p \in {q \in DOMAIN texts : q[1] = r}}

FirstIn(S) == CHOOSE x \in S : \A y \in S : x <= y

(***************************************************************************)
(* extractors.extract_new_portfolios                                       *)
(***************************************************************************)
Arqaam == <<"A","r","q","a","a","m">>
TotalLabel == <<"t","o","t","a","l">>

\* the holdings block is cut at the first row whose first column is "total"
\* the holdings block is not cut
CutAtTotal_KeepAll(rows, tcol) == rows

CutAtTotal(rows, tcol) ==
    LET raw(row) == Lower(Strip(Str(row.cells[tcol])))
        tot == {k \in 1..Len(rows) : raw(rows[k]) = TotalLabel}
    IN IF tot = {} THEN rows
       ELSE LET first_total == rows[FirstIn(tot)].idx
            IN SelectSeq(rows, LAMBDA row : row.idx <= first_total - 1)

\* first row that holds a "shares" label and a "% nav" label; -1 if none
ArqaamHeaderRow(df) ==
    Let(LowerTexts(df), LAMBDA texts :
        LET hdr == {r \in 0..(df.nrows - 1) :
                       /\ \E v \in RowTexts(texts, r) : Contains(v, <<"s","h","a","r","e","s">>)
                       /\ \E v \in RowTexts(texts, r) : Contains(v, <<"%">>) /\ Contains(v, <<"n","a","v">>)}
        IN IF hdr = {} THEN -1 ELSE FirstIn(hdr))

ArqaamHoldings(df, group_name) ==
    Let(ArqaamHeaderRow(df), LAMBDA header_row :
        IF header_row < 0 THEN <<>>
        ELSE Let(trim_empty_rows(read_with_header(df, header_row)), LAMBDA sub :
                 LET wcols == {c \in 1..Len(sub.names) : Contains(Lower(sub.names[c]), <<"%">>)}
                 IN IF wcols = {} THEN <<>>
                    ELSE HoldingsFrom(CutAtTotal(sub.rows, 1), 1, FirstIn(wcols),
                                      group_name, group_name)))

\* value * fx_usd_to_egp when a rate is given and the value is a number
Converted(v, fxv) == IF ~IsNaN(fxv) /\ ~IsNaN(v) THEN RMul(v, fxv) ELSE v

\* a path string received where the rate is expected
PathArg(name) == <<name>>
IsPathArg(v) == Len(v) = 1

extract_new_portfolios(file, group_name, fxv, src) ==
    LET df == file[1].df
    IN IF ~InBounds(df, 1, 1) \/ ~InBounds(df, 4, 1) THEN ExtractRaised("IndexError")
       \* float(fx_usd_to_egp) of a string that is no numeral
       ELSE IF IsPathArg(fxv) /\ (~IsNaN(CoerceVal(Iat(df, 1, 1))) \/ ~IsNaN(CoerceVal(Iat(df, 4, 1))))
       THEN ExtractRaised("ValueError")
       ELSE Let(Converted(CoerceVal(Iat(df, 1, 1)), fxv), LAMBDA cash :
            Let(Converted(CoerceVal(Iat(df, 4, 1)), fxv), LAMBDA nav :
                Extracted(
                  Table(SummaryCols, <<SummaryRow(group_name, group_name, nav, cash, NaN, src)>>),
                  Table(HoldingsCols, ArqaamHoldings(df, group_name)),
                  Table(TotalsCols, <<TotalsRow(group_name, group_name, nav, cash, NaN)>>))))

(***************************************************************************)
(* extractors._extract_consolidated_from_sheet                             *)
(***************************************************************************)
HeaderWindow == 100
PPWindow == 400
NetCol == 9

StockKeys ==
    {<<"s","t","o","c","k">>, <<"t","i","c","k","e","r">>, <<"s","y","m","b","o","l">>,
     <<"c","o","d","e">>, <<"i","s","i","n">>}

IsWeightText(v) == Contains(v, <<"w","e","i","g","h","t">>) \/ Contains(v, <<"%">>)

\* first row from the anchor row on that holds a stock label and a weight label; -1 if none
ConsHeaderRow(df, r0) ==
    Let(LowerTexts(df), LAMBDA texts :
        LET hdr == {r \in r0..(Min(df.nrows, r0 + HeaderWindow) - 1) :
                       /\ \E v \in RowTexts(texts, r) :
                             \/ Contains(v, <<"s","t","o","c","k">>)
                             \/ Strip(v) \in {<<"t","i","c","k","e","r">>, <<"s","y","m","b","o","l">>}
                       /\ \E v \in RowTexts(texts, r) : IsWeightText(v)}
        IN IF hdr = {} THEN -1 ELSE FirstIn(hdr))

ConsHoldings(df, header_row, group, portfolio) ==
    IF header_row < 0 THEN <<>>
    ELSE Let(trim_empty_rows(read_with_header(df, header_row)), LAMBDA sub :
             LET name(c) == Lower(Strip(sub.names[c]))
                 scols == {c \in 1..Len(sub.names) : \E k \in StockKeys : Contains(name(c), k)}
                 wcols == {c \in 1..Len(sub.names) : IsWeightText(name(c))}
             IN IF scols = {} \/ wcols = {} THEN <<>>
                ELSE HoldingsFrom(sub.rows, FirstIn(scols), FirstIn(wcols), group, portfolio))

\* the value right of the label at (r, c), else the nearest number around it
ValueNear(df, r, c) ==
    Let(value_to_right(df, r, c), LAMBDA direct :
        IF ~IsNaN(direct) THEN direct
        ELSE choose_nearest_numeric_threshold(df, r, c, MinValue, MaxRadius))

\* value at the first purchasing-power label at or below the start row
ConsPurchasingPower(df, start) ==
    Let(find_cell_in(df, start..(Min(df.nrows, start + PPWindow) - 1), PurchasingPowerPattern),
        LAMBDA cell : IF cell = NoCell THEN NaN ELSE ValueNear(df, cell[1], cell[2]))

\* every row of the sheet is scanned, the rows above the anchor included
NetRows_AnyRow(df, r0) ==
    {rr \in 0..(df.nrows - 1) :
        Contains(Lower(Strip(normalize_str(Iat(df, rr, NetCol)))), <<"n","e","t">>)}

\* the rows below the anchor whose cell in the net column contains "net"
NetRows(df, r0) ==
    {rr \in (r0 + 1)..(df.nrows - 1) :
        Contains(Lower(Strip(normalize_str(Iat(df, rr, NetCol)))), <<"n","e","t">>)}

\* value at the first such row
ConsNav(df, r0) ==
    Let(NetRows(df, r0), LAMBDA rows :
        IF rows = {} THEN NaN ELSE ValueNear(df, FirstIn(rows), NetCol))

extract_consolidated_from_sheet(df, group, portfolio, src) ==
    Let(find_cell(df, ConsolidatedPattern), LAMBDA cons :
        LET r0 == cons[1]
        IN IF cons = NoCell THEN [exc |-> "ValueError", summary |-> <<>>, holdings |-> <<>>]
           \* df.iat[rr, 9] on the first row below the anchor of a sheet without column 9
           ELSE IF r0 + 1 <= df.nrows - 1 /\ NetCol >= df.ncols
                THEN [exc |-> "IndexError", summary |-> <<>>, holdings |-> <<>>]
           ELSE Let(ConsHeaderRow(df, r0), LAMBDA header_row :
                    LET pp_search_start == IF header_row >= 0 THEN header_row ELSE r0
                    IN [exc |-> "none",
                        summary |-> <<SummaryRow(group, portfolio, ConsNav(df, r0), NaN,
                                                 ConsPurchasingPower(df, pp_search_start), src)>>,
                        holdings |-> ConsHoldings(df, header_row, group, portfolio)]))

(***************************************************************************)
(* extractors.extract_yasser, extractors.extract_cfh                       *)
(***************************************************************************)
Yasser == <<"Y","a","s","s","e","r">>
RnR == <<"R","&","R">>
CFH == <<"C","F","H">>

PairLess(a, b) == StrLess(a[1], b[1]) \/ (a[1] = b[1] /\ StrLess(a[2], b[2]))

\* the column of that name
Column(rows, field) == Eager([k \in 1..Len(rows) |-> rows[k][field]])

\* groupby(["group","portfolio"]).agg(sum): one row per pair, pairs sorted
GroupTotals(rows) ==
    LET keys == SortSet({<<r.group, r.portfolio>> : r \in Range(rows)}, PairLess)
        of(k) == SelectSeq(rows, LAMBDA r : <<r.group, r.portfolio>> = k)
    IN Eager([i \in 1..Len(keys) |->
          TotalsRow(keys[i][1], keys[i][2],
                    NanSum(Column(of(keys[i]), "nav")),
                    NanSum(Column(of(keys[i]), "cash")),
                    NanSum(Column(of(keys[i]), "purchasing_power")))])

\* the per-sheet calls in order, then the three frames of the file
ConsolidatedFile(file, calls, group, src) ==
    Let(Eager([k \in 1..Len(calls) |->
            extract_consolidated_from_sheet(file[calls[k][1]].df, group, calls[k][2], src)]),
        LAMBDA res :
            LET bad == {k \in 1..Len(calls) : res[k].exc # "none"}
                summ == Concat([k \in 1..Len(calls) |-> res[k].summary])
            IN IF bad # {} THEN ExtractRaised(res[FirstIn(bad)].exc)
               \* groupby(["group","portfolio"]) on a frame without columns
               ELSE IF calls = <<>> THEN ExtractRaised("KeyError")
               ELSE Extracted(Table(SummaryCols, summ),
                              Table(HoldingsCols, Concat([k \in 1..Len(calls) |-> res[k].holdings])),
                              Table(TotalsCols, GroupTotals(summ))))

IsYasserSheet(name) == Contains(Lower(name), <<"y","a","s","s","e","r">>)
IsRnRSheet(name) ==
    \/ Contains(Lower(name), <<"r","&","r">>)
    \/ Contains(Lower(name), <<"r"," ","&"," ","r">>)
    \/ Contains(Lower(name), <<"r","n","r">>)

extract_yasser(file, src) ==
    LET calls == Concat([i \in 1..Len(file) |->
                    (IF IsYasserSheet(file[i].name) THEN <<<<i, Yasser>>>> ELSE <<>>)
                      \o (IF IsRnRSheet(file[i].name) THEN <<<<i, RnR>>>> ELSE <<>>)])
    IN ConsolidatedFile(file, calls, Yasser, src)

extract_cfh(file, src) ==
    LET portfolio_name(i) ==
            IF Contains(Strip(Lower(file[i].name)), <<"r","a","w"," ","d","a","t","a">>)
            THEN CFH ELSE file[i].name
        calls == IF Len(file) = 1 THEN <<<<1, CFH>>>>
                 ELSE [i \in 1..Len(file) |-> <<i, portfolio_name(i)>>]
    IN ConsolidatedFile(file, calls, CFH, src)

(***************************************************************************)
(* extractors.extract_positions_by_group                                   *)
(***************************************************************************)
LabelWindow == 40
WeightOffset == 3

CellLabel(df, r, c) == Lower(Strip(normalize_str(Iat(df, r, c))))

\* the ticker rows below a header row: up to the first row without a ticker
TickerRun(df, header_row, col) ==
    {rr \in (header_row + 1)..(df.nrows - 1) :
        \A q \in (header_row + 1)..rr : Len(clean_ticker(Iat(df, q, col))) > 0}

\* the value right of the last row carrying the label, NaN without such a row
LabelledValue(df, r0, c0, label) ==
    Let({r \in r0..(Min(df.nrows, r0 + LabelWindow) - 1) : CellLabel(df, r, c0) = label},
        LAMBDA rs :
            IF rs = {} THEN NaN
            ELSE CoerceVal(Iat(df, CHOOSE r \in rs : \A q \in rs : q <= r, c0 + 1)))

IsSkippedSheet(sheet) ==
    \/ Lower(Strip(sheet.name)) = <<"u","n","g","r","o","u","p","e","d">>
    \/ find_cell(sheet.df, GroupSummaryPattern) = NoCell

\* one processed sheet: its summary row, totals row and holdings rows
\* the first row at or below the anchor whose label is "stock"; -1 if none
PositionsHeaderRow(df, r0, c0) ==
    Let({r \in r0..(df.nrows - 1) : CellLabel(df, r, c0) = <<"s","t","o","c","k">>},
        LAMBDA hdr : IF hdr = {} THEN -1 ELSE FirstIn(hdr))

\* the number of ticker rows below the header row
PositionsRun(df, c0, header_row) ==
    IF header_row < 0 THEN 0 ELSE Cardinality(TickerRun(df, header_row, c0))

PositionsSheet(sheet, src) ==
    LET df == sheet.df
    IN Let(find_cell(df, GroupSummaryPattern), LAMBDA gs :
       Let(PositionsHeaderRow(df, gs[1], gs[2]), LAMBDA header_row :
       Let(PositionsRun(df, gs[2], header_row), LAMBDA run :
           LET c0 == gs[2]
               rows == Eager([k \in 1..run |->
                          HoldingRow(sheet.name, sheet.name,
                                     clean_ticker(Iat(df, header_row + k, c0)),
                                     safe_percent_to_ratio(
                                         CoerceVal(Iat(df, header_row + k, c0 + WeightOffset))))])
           IN \* df.iat[r, c0 + 1] with the anchor in the last column
              IF c0 + 1 >= df.ncols THEN [exc |-> "IndexError", s |-> <<>>, t |-> <<>>, h |-> <<>>]
              \* df.iat[rr, c0 + 3] on the first ticker row
              ELSE IF run > 0 /\ c0 + WeightOffset >= df.ncols
                   THEN [exc |-> "IndexError", s |-> <<>>, t |-> <<>>, h |-> <<>>]
              ELSE Let(LabelledValue(df, gs[1], c0, <<"t","o","t","a","l"," ","c","a","s","h">>),
                       LAMBDA total_cash :
                   Let(LabelledValue(df, gs[1], c0, <<"t","o","t","a","l"," ","n","a","v">>),
                       LAMBDA total_nav :
                       [exc |-> "none",
                        s |-> <<SummaryRow(sheet.name, sheet.name, total_nav, total_cash, NaN, src)>>,
                        t |-> <<TotalsRow(sheet.name, sheet.name, total_nav, total_cash, NaN)>>,
                        h |-> rows])))))

\* the result of the sheets processed in order
PositionsResult(res) ==
    LET bad == {k \in 1..Len(res) : res[k].exc # "none"}
    IN IF bad # {} THEN ExtractRaised(res[FirstIn(bad)].exc)
       ELSE Extracted(FrameOf(SummaryCols, Concat([k \in 1..Len(res) |-> res[k].s])),
                      Table(HoldingsCols, Concat([k \in 1..Len(res) |-> res[k].h])),
                      FrameOf(TotalsCols, Concat([k \in 1..Len(res) |-> res[k].t])))

extract_positions_by_group(file, src) ==
    Let(SelectSeq(file, LAMBDA sh : ~IsSkippedSheet(sh)), LAMBDA used :
        PositionsResult(Eager([k \in 1..Len(used) |-> PositionsSheet(used[k], src)])))

(***************************************************************************)
(* extractors.extract_customer_position_mode_b                             *)
(***************************************************************************)
RetailSheet == <<"R","e","t","a","i","l",">","5","M">>
Emad == <<"E","m","a","d">>
NetRowWindow == 25
NetColWindow == 15
NetLabelMax == 12

\* first cell of the window below and right of the anchor that is a short "net" label
IsNetLabel(t) == Contains(t, <<"n","e","t">>) /\ Len(t) <= NetLabelMax

ModeBNetCell(df, r, c) ==
    Let({p \in (r..(Min(df.nrows, r + NetRowWindow) - 1)) \X (c..(Min(df.ncols, c + NetColWindow) - 1)) :
            IsNetLabel(CellLabel(df, p[1], p[2]))},
        LAMBDA hits :
            IF hits = {} THEN NoCell ELSE CHOOSE p \in hits : \A q \in hits : RowMajorLeq(p, q))

\* stock_value / nav, NaN without a usable NAV or stock value
WeightRatio(stock_value, nav) ==
    IF ~IsNaN(nav) /\ nav # <<0, 1>> /\ ~IsNaN(stock_value) THEN RDiv(stock_value, nav) ELSE NaN

ModeBHoldings(df, r, c, nav) ==
    LET stock_col == c + 2
        value_col == stock_col + 2
        run == IF stock_col < df.ncols THEN TickerRun(df, r, stock_col) ELSE {}
        stock_value(rr) == IF value_col < df.ncols THEN CoerceVal(Iat(df, rr, value_col)) ELSE NaN
    IN Eager([k \in 1..Cardinality(run) |->
          HoldingRow(Emad, Emad, clean_ticker(Iat(df, r + k, stock_col)),
                     WeightRatio(stock_value(r + k), nav))])

\* the value right of the net label, NaN without label or without that column
ModeBNav(df, net) ==
    IF net # NoCell /\ net[2] + 1 < df.ncols THEN CoerceVal(Iat(df, net[1], net[2] + 1)) ELSE NaN

extract_customer_position_mode_b(file, src) ==
    LET named == {i \in 1..Len(file) : file[i].name = RetailSheet}
        df == file[FirstIn(named)].df
    IN \* read_excel: no worksheet of that name
       IF named = {} THEN ExtractRaised("ValueError")
       ELSE Let(find_cell(df, ClientPattern), LAMBDA anchor :
            LET r == anchor[1]
                c == anchor[2]
            IN IF anchor = NoCell THEN ExtractRaised("ValueError")
               ELSE Let(IF c + 1 < df.ncols THEN CoerceVal(Iat(df, r, c + 1)) ELSE NaN, LAMBDA cash :
                    Let(ModeBNav(df, ModeBNetCell(df, r, c)), LAMBDA nav :
                        Extracted(Table(SummaryCols, <<SummaryRow(Emad, Emad, nav, cash, NaN, src)>>),
                                  Table(HoldingsCols, ModeBHoldings(df, r, c, nav)),
                                  Table(TotalsCols, <<TotalsRow(Emad, Emad, nav, cash, NaN)>>)))))

(***************************************************************************)
(* engine.build_presence_matrix                                            *)
(***************************************************************************)
MatrixTable(pcols, rows) ==
    [lead |-> <<"ticker">>, pcols |-> pcols, tail |-> <<"presence", "presence_count">>,
     rows |-> rows]

\* pivot_table(values="weight_pct", aggfunc="sum"): NaN where the portfolio has no
\* row for the ticker, else the sum of weight_ratio * 100 over its rows
PivotWeight(holdings, t, p) ==
    LET hs == SelectSeq(holdings, LAMBDA h : h.ticker = t /\ h.portfolio = p)
    IN IF hs = <<>> THEN NaN
       ELSE NanSum([k \in 1..Len(hs) |-> RMul(hs[k].weight_ratio, <<100, 1>>)])

\* a portfolio counts only when it holds the ticker with a weight
PivotPresent_ByWeight(holdings, t, p) ==
    IF \E k \in 1..Len(holdings) :
          /\ holdings[k].ticker = t /\ holdings[k].portfolio = p
          /\ ~IsNaN(holdings[k].weight_ratio)
    THEN 1 ELSE 0

\* pivot_table(values="present", aggfunc="max") then fillna(0).astype(int)
PivotPresent(holdings, t, p) ==
    IF \E k \in 1..Len(holdings) : holdings[k].ticker = t /\ holdings[k].portfolio = p
    THEN 1 ELSE 0

RECURSIVE SumSeq(_)
SumSeq(q) == IF q = <<>> THEN 0 ELSE Head(q) + SumSeq(Tail(q))

\* str(count) + "/" + str(len(portfolios))
PresenceText(count, n) == IntToChars(count) \o <<"/">> \o IntToChars(n)

\* the summed weight is the first sort key and presence_count the second
MatrixBefore_WeightFirst(rows, sw, i, j) ==
    \/ RLess(sw[j], sw[i])
    \/ /\ sw[i] = sw[j]
       /\ \/ rows[i].presence_count > rows[j].presence_count
          \/ rows[i].presence_count = rows[j].presence_count /\ i < j

\* row i goes before row j: presence_count descending, then summed weight
\* descending, then the order of the pivot index (stable sort)
MatrixBefore(rows, sw, i, j) ==
    \/ rows[i].presence_count > rows[j].presence_count
    \/ /\ rows[i].presence_count = rows[j].presence_count
       /\ \/ RLess(sw[j], sw[i])
          \/ sw[i] = sw[j] /\ i < j

build_presence_matrix(holdings, portfolios) ==
    IF holdings = <<>> THEN MatrixTable(portfolios, <<>>)
    ELSE LET tickers == SortSet({h.ticker : h \in Range(holdings)}, StrLess)
             n == Len(portfolios)
             rows == Eager([i \in 1..Len(tickers) |->
                        LET count == SumSeq([k \in 1..n |-> PivotPresent(holdings, tickers[i], portfolios[k])])
                        IN [ticker |-> tickers[i],
                            w |-> Eager([k \in 1..n |-> PivotWeight(holdings, tickers[i], portfolios[k])]),
                            presence |-> PresenceText(count, n),
                            presence_count |-> count]])
             sw == Eager([i \in 1..Len(tickers) |-> NanSum(rows[i].w)])
             order == SortSet(1..Len(tickers), LAMBDA i, j : MatrixBefore(rows, sw, i, j))
         IN MatrixTable(portfolios, Eager([i \in 1..Len(tickers) |-> rows[order[i]]]))

(***************************************************************************)
(* engine.build_master                                                     *)
(***************************************************************************)
Absent == <<>>

HasCol(t, col) == \E i \in 1..Len(t.cols) : t.cols[i] = col

\* add the column when the frame lacks it
WithCol(t, col) == IF HasCol(t, col) THEN t ELSE Table(Append(t.cols, col), t.rows)

RECURSIVE WithCols(_, _)
WithCols(t, cols) == IF cols = <<>> THEN t ELSE WithCols(WithCol(t, Head(cols)), Tail(cols))

\* pd.concat(frames, ignore_index=True): union of the columns, rows in order
ConcatFrames(frames) ==
    Table(Unique(Concat([k \in 1..Len(frames) |-> frames[k].cols])),
          Concat([k \in 1..Len(frames) |-> frames[k].rows]))

PortRank(x) ==
    IF x = CFH THEN 0 ELSE IF x = Yasser THEN 1 ELSE IF x = RnR THEN 2 ELSE 3

\* sorted(portfolios, key=port_key)
PortLess(a, b) == PortRank(a) < PortRank(b) \/ (PortRank(a) = PortRank(b) /\ StrLess(a, b))

\* the paths the application saves the uploads under
UploadPaths ==
    [arqaam |-> "NEW PORTFOLIOS.xlsx", yasser |-> "Yasser.xlsx", cfh |-> "CFH.xlsx",
     pos |-> "positions_by_group.xlsx", emad |-> "Customers Position.xlsx"]

\* the extractor calls of build_master, in order; f holds the workbook behind
\* each path argument and path the path itself
Calls(f, fxv, path) ==
    (IF f.arqaam # Absent
     THEN <<[name |-> "extract_new_portfolios",
             res |-> extract_new_portfolios(f.arqaam, Arqaam, fxv, path.arqaam)]>> ELSE <<>>)
    \o (IF f.yasser # Absent
        THEN <<[name |-> "extract_yasser", res |-> extract_yasser(f.yasser, path.yasser)]>> ELSE <<>>)
    \o (IF f.cfh # Absent
        THEN <<[name |-> "extract_cfh", res |-> extract_cfh(f.cfh, path.cfh)]>> ELSE <<>>)
    \o (IF f.pos # Absent
        THEN <<[name |-> "extract_positions_by_group",
                res |-> extract_positions_by_group(f.pos, path.pos)]>> ELSE <<>>)
    \o (IF f.emad # Absent
        THEN <<[name |-> "extract_customer_position_mode_b",
                res |-> extract_customer_position_mode_b(f.emad, path.emad)]>> ELSE <<>>)

NoTable == Table(<<>>, <<>>)

\* an exception leaves build_master: its type, the function that raised it
\* and the extractors called so far; no table is returned
MasterRaised(e, at, invoked) ==
    [exc |-> e, at |-> at, invoked |-> invoked, summary |-> NoTable, holdings |-> NoTable,
     totals |-> NoTable, matrix |-> MatrixTable(<<>>, <<>>)]

MasterReturned(invoked, summ, hold, tot, mat) ==
    [exc |-> "none", at |-> "none", invoked |-> invoked, summary |-> summ, holdings |-> hold,
     totals |-> tot, matrix |-> mat]

\* the four frames built when no path was given
EmptyMaster_NoColumns == MasterReturned(<<>>, NoTable, NoTable, NoTable, MatrixTable(<<>>, <<>>))

EmptyMaster ==
    MasterReturned(<<>>, Table(SummaryCols, <<>>), Table(HoldingsCols, <<>>),
                   Table(TotalsCols, <<>>), MatrixTable(<<>>, <<>>))

\* the holdings frames with rows, concatenated
HoldingsOf(parts) ==
    Let(SelectSeq(parts, LAMBDA p : p.holdings.rows # <<>>), LAMBDA filled :
        IF filled # <<>>
        THEN ConcatFrames([k \in 1..Len(filled) |-> filled[k].holdings])
        ELSE Table(HoldingsCols, <<>>))

BuildMasterAt(f, fxv, path) ==
    Let(Calls(f, fxv, path), LAMBDA calls :
        LET bad == {k \in 1..Len(calls) : calls[k].res.exc # "none"}
            names == Eager([k \in 1..Len(calls) |-> calls[k].name])
            parts == Eager([k \in 1..Len(calls) |-> calls[k].res])
            totals_df == WithCols(ConcatFrames([k \in 1..Len(parts) |-> parts[k].totals]),
                                  <<"total_nav", "total_cash", "total_purchasing_power">>)
        IN \* the first extractor that raises ends the run; the later ones are not called
           IF bad # {}
           THEN MasterRaised(calls[FirstIn(bad)].res.exc, names[FirstIn(bad)],
                             SubSeq(names, 1, FirstIn(bad)))
           ELSE IF parts = <<>> THEN EmptyMaster
           ELSE Let(WithCols(ConcatFrames([k \in 1..Len(parts) |-> parts[k].summary]),
                             <<"cash", "purchasing_power">>), LAMBDA summary_df :
                Let(HoldingsOf(parts), LAMBDA holdings_df :
                    \* summary_df["portfolio"] on a frame that has no such column
                    IF ~HasCol(summary_df, "portfolio")
                    THEN MasterRaised("KeyError", "build_master", names)
                    ELSE MasterReturned(names, summary_df, holdings_df, totals_df,
                             build_presence_matrix(holdings_df.rows,
                                 SortSet({r.portfolio : r \in Range(summary_df.rows)}, PortLess))))))

\* build_master with every argument passed by keyword
build_master(f, fxv) == BuildMasterAt(f, fxv, UploadPaths)

\* build_master(p_new, p_y, p_c, p_p, p_u): the arguments are bound by position,
\* the second parameter being fx_usd_to_egp
build_master_positional(f) ==
    BuildMasterAt([arqaam |-> f.arqaam, yasser |-> f.cfh, cfh |-> f.pos, pos |-> f.emad, emad |-> Absent],
                  PathArg(UploadPaths.yasser),
                  [arqaam |-> UploadPaths.arqaam, yasser |-> UploadPaths.cfh, cfh |-> UploadPaths.pos,
                   pos |-> UploadPaths.emad, emad |-> "None"])

(***************************************************************************)
(* report.build_unified_table                                              *)
(***************************************************************************)
\* the decimal digits of n with "," between groups of three
RECURSIVE GroupDigits(_)
GroupDigits(n) ==
    IF n < 1000 THEN NatToChars(n)
    ELSE LET low == NatToChars(n % 1000)
         IN GroupDigits(n \div 1000) \o <<",">> \o [i \in 1..(3 - Len(low)) |-> "0"] \o low

\* the float -0.0, which formats with its sign
NegZero == <<0, -1>>

\* |v| in hundredths, rounded half to even
Hundredths(v) ==
    LET num == Abs(v[1]) * 100
        q == num \div v[2]
        r2 == 2 * (num % v[2])
    IN IF r2 > v[2] \/ (r2 = v[2] /\ q % 2 = 1) THEN q + 1 ELSE q

\* format(x, ".2f") or format(x, ",.2f") of a number
Fixed2(v, grouped) ==
    IF v = NegZero THEN <<"-","0",".","0","0">>
    ELSE IF v = PosInf THEN <<"i","n","f">>
    ELSE IF v = NegInf THEN <<"-","i","n","f">>
    ELSE LET h == Hundredths(v)
             cents == NatToChars(h % 100)
         IN (IF v[1] < 0 THEN <<"-">> ELSE <<>>)
              \o (IF grouped THEN GroupDigits(h \div 100) ELSE NatToChars(h \div 100))
              \o <<".">> \o (IF Len(cents) = 1 THEN <<"0">> ELSE <<>>) \o cents

\* fmt: f"{x:,.2f}" if pd.notna(x) else ""
fmt(v) == IF IsNaN(v) THEN <<>> ELSE Fixed2(v, TRUE)

\* fmt_pct and the matrix cells: f"{v:.2f}%" if pd.notna(v) else ""
fmt_pct(v) == IF IsNaN(v) THEN <<>> ELSE Fixed2(v, FALSE) \o <<"%">>

\* totals_df.groupby("portfolio").agg(sum) read back into a map; NaN for a
\* portfolio without totals row
TotalOf(totals, p, field) ==
    LET rs == SelectSeq(totals.rows, LAMBDA r : r.portfolio = p)
    IN IF rs = <<>> THEN NaN ELSE NanSum(Column(rs, field))

\* (part / whole) * 100.0; a zero part over a negative whole is the float -0.0
Percent(part, whole) ==
    IF part = <<0, 1>> /\ RLess(whole, <<0, 1>>) THEN NegZero
    ELSE RMul(RDiv(part, whole), <<100, 1>>)

\* Cash/NAV when a cash total exists, else PP/(NAV+PP)
CashPercent(nav, cash, pp) ==
    IF ~IsNaN(cash) /\ ~IsNaN(nav) /\ nav # <<0, 1>> THEN Percent(cash, nav)
    ELSE IF ~IsNaN(pp) /\ ~IsNaN(nav) /\ RAdd(nav, pp) # <<0, 1>> THEN Percent(pp, RAdd(nav, pp))
    ELSE NaN

\* the figures of the unified table: per portfolio column and TOTAL, the rows
\* "Total NAV", "Total Cash", "Purchasing Power", "%Cash", then the holdings rows
build_unified_table(totals, matrix) ==
    LET portfolio_cols ==
            IF matrix.pcols = <<>> /\ totals.rows # <<>>
            THEN Unique(Column(totals.rows, "portfolio"))
            ELSE matrix.pcols
        n == Len(portfolio_cols)
        nav(k) == TotalOf(totals, portfolio_cols[k], "total_nav")
        cash(k) == TotalOf(totals, portfolio_cols[k], "total_cash")
        pp(k) == TotalOf(totals, portfolio_cols[k], "total_purchasing_power")
        total_nav == IF n > 0 THEN NanSum([k \in 1..n |-> nav(k)]) ELSE NaN
        total_cash == IF n > 0 THEN NanSum([k \in 1..n |-> cash(k)]) ELSE NaN
        total_pp == IF n > 0 THEN NanSum([k \in 1..n |-> pp(k)]) ELSE NaN
    IN [cols |-> Eager(portfolio_cols),
        nav |-> [k \in 1..n |-> fmt(nav(k))] \o <<fmt(total_nav)>>,
        cash |-> [k \in 1..n |-> fmt(cash(k))] \o <<fmt(total_cash)>>,
        pp |-> [k \in 1..n |-> fmt(pp(k))] \o <<fmt(total_pp)>>,
        pct |-> [k \in 1..n |-> fmt_pct(CashPercent(nav(k), cash(k), pp(k)))]
                  \o <<fmt_pct(CashPercent(total_nav, total_cash, total_pp))>>,
        holdings |-> Eager([i \in 1..Len(matrix.rows) |->
                        [ticker |-> matrix.rows[i].ticker,
                         w |-> Eager([k \in 1..n |-> IF k <= Len(matrix.rows[i].w)
                                               THEN fmt_pct(matrix.rows[i].w[k]) ELSE <<>>]),
                         presence |-> matrix.rows[i].presence]])]

(***************************************************************************)
(* Cell utilities applied to one cell                                      *)
(***************************************************************************)
MaxGroups == 1

Alphabet == {"1", "5", ".", ",", "-", "(", ")", "%", " ", "x", "A", "_"}

ShortTexts == UNION {[1..k -> Alphabet] : k \in 0..MaxTxtLen}

\* digit groups joined by thousands separators, optional decimals
LeadGroups == {<<"1">>, <<"1","2">>}
TailGroups == {<<",","2","3","4">>, <<",","0","0","0">>}
Fractions == {<<>>, <<".","5">>, <<".","5","0">>}

GroupedNumerals ==
    {l \o Concat(g) \o f :
        l \in LeadGroups,
        g \in UNION {[1..k -> TailGroups] : k \in 0..MaxGroups},
        f \in Fractions}

Paren(s) == <<"(">> \o s \o <<")">>

LabelTexts ==
    junk \cup {Lower(j) : j \in junk} \cup Placeholders \cup {Upper(p) : p \in Placeholders}
      \cup {<<"A","B","C",".","C","A">>, <<"a","b","c",".","c","a">>,
            <<"T","o","t","a","l"," ","C","a","s","h">>,
            <<"N","A","V",".","C","A">>,
            <<"1","e","2","%">>, <<"1","_","5","%">>, <<"1","2",".","5","%">>,
            <<"i","n","f","%">>, <<NBSP,"1","5",NBSP>>,
            <<"E","G","P"," ","1",",","2","3","4">>}

\* numbers at and around the boundaries of safe_percent_to_ratio
RatioCells ==
    {FloatCell(<<6, 5>>), FloatCell(<<-6, 5>>), FloatCell(<<121, 100>>), FloatCell(<<-121, 100>>),
     FloatCell(<<25, 2>>), FloatCell(<<1, 8>>), FloatCell(<<-40, 1>>), FloatCell(NegInf), IntCell(1)}

ArgCells ==
    {None, HugeInt, DateCell, BoolCell(TRUE), BoolCell(FALSE),
     IntCell(0), IntCell(-7), IntCell(1234),
     FloatCell(NaN), FloatCell(<<5, 2>>), FloatCell(<<-1, 8>>), FloatCell(PosInf)}
      \cup RatioCells
      \cup {Txt(s) : s \in ShortTexts \cup GroupedNumerals \cup LabelTexts}
      \cup {Txt(Paren(s)) : s \in GroupedNumerals}

IdleArg == None
IdleRet == Returned(NaN)

UtilsIdle == /\ files = <<>> /\ fx = NaN /\ pc = "utils" /\ out = <<>> /\ report = <<>>

InitUtils ==
    /\ arg \in ArgCells
    /\ fn = "none"
    /\ ret = IdleRet
    /\ UtilsIdle

CallCoerceNumber ==
    /\ pc = "utils" /\ fn = "none"
    /\ fn' = "coerce_number"
    /\ ret' = coerce_number(arg)
    /\ UNCHANGED <<arg, files, fx, pc, out, report>>

CallCleanTicker ==
    /\ pc = "utils" /\ fn = "none"
    /\ fn' = "clean_ticker"
    /\ ret' = ReturnedTxt(clean_ticker(arg))
    /\ UNCHANGED <<arg, files, fx, pc, out, report>>

\* safe_percent_to_ratio on None or on a native number
CallSafePercentToRatio ==
    /\ pc = "utils" /\ fn = "none"
    /\ arg.t \in {"none", "int", "float"}
    /\ fn' = "safe_percent_to_ratio"
    /\ ret' = Returned(safe_percent_to_ratio(IF arg.t = "none" THEN NoneArg ELSE <<arg.n, arg.d>>))
    /\ UNCHANGED <<arg, files, fx, pc, out, report>>

NextUtils == CallCoerceNumber \/ CallCleanTicker \/ CallSafePercentToRatio

SpecUtils == InitUtils /\ [][NextUtils]_vars

(***************************************************************************)
(* Input workbooks.  A workbook is the sequence of its sheets; a sheet has *)
(* a name and the frame pandas reads from it.                              *)
(***************************************************************************)
MaxHoldings == 2

Sheet(name, nrows, ncols, cells) ==
    [name |-> name, df |-> [nrows |-> nrows, ncols |-> ncols, cells |-> cells]]

Hold(t, w) == [t |-> t, w |-> w]

\* the first MaxHoldings rows of a holdings list
Capped(rows) == SubSeq(rows, 1, Min(Len(rows), MaxHoldings))

\* ticker cells in column tc and weight cells in column wc from row r0 on
HoldCells(r0, tc, wc, rows) ==
    [p \in {<<r0 + k - 1, c>> : k \in 1..Len(rows), c \in {tc, wc}} |->
        IF p[2] = tc THEN rows[p[1] - r0 + 1].t ELSE rows[p[1] - r0 + 1].w]

\* ----- Arqaam ("NEW PORTFOLIOS.xlsx"): cash in B2, NAV in B5 -----
ArqaamRows ==
    <<<<Hold(Txt(<<"A","A","A">>), Txt(<<"1","2",".","5","%">>)), Hold(Txt(<<"B","B","B",".","C","A">>), FloatCell(<<1, 4>>)), Hold(Txt(<<"E","E","E">>), IntCell(2))>>,
     <<Hold(Txt(<<"C","a","s","h">>), IntCell(5)), Hold(Txt(<<"C","C","C">>), IntCell(30)), Hold(Txt(<<"A","A","A">>), IntCell(30))>>>>

ArqaamSheet(rows, cash) ==
    LET n == Len(rows)
    IN Sheet(<<"S","h","e","e","t","1">>, 8 + n, 3,
             (<<1, 0>> :> Txt(<<"C","a","s","h">>)) @@ (<<1, 1>> :> cash)
               @@ (<<4, 0>> :> Txt(<<"T","o","t","a","l"," ","N","A","V">>)) @@ (<<4, 1>> :> IntCell(5000))
               @@ (<<5, 0>> :> Txt(<<"T","i","c","k","e","r">>)) @@ (<<5, 1>> :> Txt(<<"S","h","a","r","e","s">>)) @@ (<<5, 2>> :> Txt(<<"%"," ","N","A","V">>))
               @@ HoldCells(6, 0, 2, rows)
               @@ (<<6 + n, 0>> :> Txt(<<" ","T","o","t","a","l"," ">>)) @@ (<<6 + n, 2>> :> IntCell(100))
               @@ (<<7 + n, 0>> :> Txt(<<"Z","Z","Z">>)) @@ (<<7 + n, 2>> :> IntCell(7)))

\* too small for B5, and a sheet without holdings header whose B2 is text
ArqaamShort == Sheet(<<"S","h","e","e","t","1">>, 3, 2, (<<1, 0>> :> Txt(<<"C","a","s","h">>)) @@ (<<1, 1>> :> IntCell(1000)))
ArqaamNarrow == Sheet(<<"S","h","e","e","t","1">>, 6, 1, (<<1, 0>> :> Txt(<<"C","a","s","h">>)) @@ (<<4, 0>> :> Txt(<<"T","o","t","a","l"," ","N","A","V">>)))
ArqaamBare ==
    Sheet(<<"S","h","e","e","t","1">>, 5, 2, (<<1, 0>> :> Txt(<<"C","a","s","h">>)) @@ (<<1, 1>> :> Txt(<<"t","b","d">>))
                             @@ (<<4, 0>> :> Txt(<<"T","o","t","a","l"," ","N","A","V">>)) @@ (<<4, 1>> :> Txt(<<"(","1",",","2","3","4",".","5","0",")">>)))

ArqaamGood ==
    <<<<ArqaamSheet(Capped(ArqaamRows[1]), IntCell(1000))>>,
      <<ArqaamSheet(Capped(ArqaamRows[2]), IntCell(1000))>>,
      <<ArqaamBare>>>>
ArqaamOk == Range(ArqaamGood)
ArqaamBad == {<<ArqaamShort>>, <<ArqaamNarrow>>}

\* ----- consolidated sheets (Yasser.xlsx, CFH.xlsx) -----
\* anchor at (0,0), holdings header below it, purchasing power under the
\* table, "Net" in column J with the value two cells to the right
ConsSheet(name, rows, pp, nav) ==
    LET n == Len(rows)
    IN Sheet(name, 5 + n, 12,
             (<<0, 0>> :> Txt(<<"C","o","n","s","o","l","i","d","a","t","e","d"," ","P","o","r","t","f","o","l","i","o">>))
               @@ (<<1, 0>> :> Txt(<<"S","t","o","c","k">>)) @@ (<<1, 1>> :> Txt(<<"W","e","i","g","h","t">>))
               @@ HoldCells(2, 0, 1, rows)
               @@ (<<2 + n, 0>> :> Txt(<<"T","o","t","a","l">>)) @@ (<<2 + n, 1>> :> IntCell(100))
               @@ (<<3 + n, 0>> :> Txt(<<"P","u","r","c","h","a","s","i","n","g"," "," ","P","o","w","e","r">>)) @@ (<<3 + n, 1>> :> pp)
               @@ (<<4 + n, 9>> :> Txt(<<"N","e","t">>)) @@ (<<4 + n, 11>> :> nav))

\* no anchor; anchor on a sheet that ends before column J
ConsNoAnchor(name) == Sheet(name, 3, 12, (<<0, 0>> :> Txt(<<"U","n","c","o","n","s","o","l","i","d","a","t","e","d">>)) @@ (<<1, 9>> :> Txt(<<"N","e","t">>)))
ConsNarrow(name) == Sheet(name, 3, 5, (<<0, 0>> :> Txt(<<"C","o","n","s","o","l","i","d","a","t","e","d">>)) @@ (<<1, 0>> :> Txt(<<"N","e","t">>)))
\* anchor in the last row, nothing below it
ConsAnchorOnly(name) == Sheet(name, 1, 2, (<<0, 1>> :> Txt(<<"c","o","n","s","o","l","i","d","a","t","e","d">>)))

YasserRows == <<Hold(Txt(<<"A","A","A">>), IntCell(20)), Hold(Txt(<<"C","C","C">>), FloatCell(<<1, 10>>)), Hold(Txt(<<"B","B","B">>), IntCell(5))>>
RnRRows == <<Hold(Txt(<<"b","b","b">>), Txt(<<"3","5","%">>)), Hold(Txt(<<"A","A","A">>), Txt(<<"t","b","d">>)), Hold(Txt(<<"C","C","C">>), IntCell(10))>>

YasserGood ==
    <<<<ConsSheet(<<"Y","a","s","s","e","r">>, Capped(YasserRows), IntCell(2500), IntCell(70000)),
        ConsSheet(<<"R"," ","&"," ","R">>, Capped(RnRRows), None, Txt(<<"1",",","5","0","0">>))>>,
      <<ConsSheet(<<"Y","a","s","s","e","r"," ","1">>, Capped(YasserRows), IntCell(2500), IntCell(70000)),
        ConsSheet(<<"y","a","s","s","e","r"," ","2">>, Capped(RnRRows), Txt(<<"4","0","0">>), None)>>,
      <<ConsAnchorOnly(<<"R","N","R">>)>>>>
YasserOk == Range(YasserGood)
YasserBad ==
    {<<ConsNoAnchor(<<"Y","a","s","s","e","r">>)>>,
     <<ConsNarrow(<<"Y","a","s","s","e","r">>)>>,
     <<ConsSheet(<<"S","h","e","e","t","1">>, Capped(YasserRows), IntCell(2500), IntCell(70000))>>}

CFHRows == <<Hold(Txt(<<"B","B","B">>), FloatCell(<<3, 10>>)), Hold(Txt(<<"A","A","A">>), IntCell(20)), Hold(Txt(<<"B","B","B">>), IntCell(5))>>
FundRows == <<Hold(Txt(<<"D","D","D">>), IntCell(50)), Hold(Txt(<<"N","A","V">>), IntCell(50)), Hold(Txt(<<"A","A","A">>), IntCell(1))>>

CFHGood ==
    <<<<ConsSheet(<<"S","h","e","e","t","1">>, Capped(CFHRows), IntCell(900), IntCell(40000))>>,
      <<ConsSheet(<<"R","a","w"," ","D","a","t","a">>, Capped(CFHRows), IntCell(900), IntCell(40000)),
        ConsSheet(<<"F","u","n","d","2">>, Capped(FundRows), None, None)>>>>
CFHOk == Range(CFHGood)
CFHBad == {<<ConsNoAnchor(<<"S","h","e","e","t","1">>)>>, <<ConsNarrow(<<"S","h","e","e","t","1">>)>>}

\* ----- positions_by_group.xlsx: one group per sheet -----
PosSheet(name, c0, ncols, rows) ==
    LET n == Len(rows)
    IN Sheet(name, 5 + n, ncols,
             (<<0, c0>> :> Txt(<<"G","r","o","u","p"," ","S","u","m","m","a","r","y">>))
               @@ (<<1, c0>> :> Txt(<<"T","o","t","a","l"," ","C","a","s","h">>)) @@ (<<1, c0 + 1>> :> IntCell(300))
               @@ (<<2, c0>> :> Txt(<<"T","o","t","a","l"," ","N","A","V">>)) @@ (<<2, c0 + 1>> :> Txt(<<"9",",","0","0","0">>))
               @@ (<<3, c0>> :> Txt(<<"S","t","o","c","k">>)) @@ (<<3, c0 + 3>> :> Txt(<<"W","e","i","g","h","t">>))
               @@ HoldCells(4, c0, c0 + 3, rows)
               @@ (<<4 + n, c0 + 1>> :> IntCell(1)))

PosNoAnchor(name) == Sheet(name, 2, 4, (<<0, 0>> :> Txt(<<"S","u","m","m","a","r","y">>)) @@ (<<1, 0>> :> Txt(<<"S","t","o","c","k">>)))
\* the anchor sits in the last column of the sheet
PosLastColumn(name) == Sheet(name, 2, 3, (<<0, 2>> :> Txt(<<"G","r","o","u","p"," ","S","u","m","m","a","r","y">>)) @@ (<<1, 2>> :> Txt(<<"T","o","t","a","l"," ","C","a","s","h">>)))

\* a ticker row on a sheet that ends before the weight column
PosThreeColumns(name) ==
    Sheet(name, 6, 3,
          (<<0, 0>> :> Txt(<<"G","r","o","u","p"," ","S","u","m","m","a","r","y">>)) @@ (<<1, 0>> :> Txt(<<"T","o","t","a","l"," ","C","a","s","h">>)) @@ (<<1, 1>> :> IntCell(300))
            @@ (<<3, 0>> :> Txt(<<"S","t","o","c","k">>)) @@ (<<4, 0>> :> Txt(<<"A","A","A">>)) @@ (<<4, 2>> :> IntCell(60)))

G1Rows == <<Hold(Txt(<<"A","A","A">>), IntCell(60)), Hold(Txt(<<"E","E","E">>), IntCell(40)), Hold(Txt(<<"D","D","D">>), IntCell(40))>>
G2Rows == <<Hold(Txt(<<"C","C","C">>), FloatCell(<<1, 2>>)), Hold(Txt(<<"A","A","A">>), FloatCell(<<1, 2>>)), Hold(Txt(<<"B","B","B">>), Txt(<<"x">>))>>

G1 == <<"G","1">>
G2 == <<"G","2">>
Ungrouped == Sheet(<<"U","n","g","r","o","u","p","e","d">>, 1, 1, (<<0, 0>> :> Txt(<<"x">>)))

PosGood ==
    <<<<PosSheet(G1, 0, 4, Capped(G1Rows)), Ungrouped>>,
      <<PosSheet(G1, 1, 5, Capped(G1Rows)), PosSheet(G2, 0, 4, Capped(G2Rows))>>,
      <<Sheet(<<" ","U","N","G","R","O","U","P","E","D"," ">>, 1, 2,
              (<<0, 0>> :> Txt(<<"G","r","o","u","p"," ","S","u","m","m","a","r","y">>)))>>,
      <<PosNoAnchor(G1)>>,
      <<PosNoAnchor(G1), PosSheet(G2, 0, 4, Capped(G2Rows))>>>>
PosOk == Range(PosGood)
PosBad == {<<PosLastColumn(G1)>>, <<PosThreeColumns(G1)>>}

\* ----- Customers Position.xlsx, sheet Retail>5M, client Emad Farah -----
EmadSheet(rows, net) ==
    LET n == Len(rows)
    IN Sheet(RetailSheet, 3 + n, 5,
             (<<0, 0>> :> Txt(<<"E","m","a","d"," ","F","a","r","a","h">>)) @@ (<<0, 1>> :> IntCell(400))
               @@ HoldCells(1, 2, 4, rows)
               @@ (<<2 + n, 0>> :> net) @@ (<<2 + n, 1>> :> IntCell(10000)))

EmadRows == <<Hold(Txt(<<"B","B","B">>), IntCell(2500)), Hold(Txt(<<"E","E","E">>), Txt(<<"(","1",",","0","0","0",")">>)), Hold(Txt(<<"C","C","C">>), IntCell(500))>>

EmadGood ==
    <<<<EmadSheet(Capped(EmadRows), Txt(<<"N","e","t">>))>>,
      <<EmadSheet(Capped(EmadRows), Txt(<<"N","e","t"," ","o","f"," ","a","l","l"," ","f","e","e","s">>))>>,
      <<Sheet(RetailSheet, 2, 1, (<<1, 0>> :> Txt(<<"M","r"," ","E","m","a","d"," ","F","a","r","a","h">>)))>>>>
EmadOk == Range(EmadGood)
EmadBad ==
    {<<Sheet(RetailSheet, 2, 2, (<<0, 0>> :> Txt(<<"O","t","h","e","r"," ","C","l","i","e","n","t">>))
                                  @@ (<<1, 0>> :> Txt(<<"N","e","t">>)))>>,
     <<Sheet(<<"R","e","t","a","i","l">>, 1, 2, (<<0, 0>> :> Txt(<<"E","m","a","d"," ","F","a","r","a","h">>)))>>}

FxRates == {NaN, <<10, 1>>}

(***************************************************************************)
(* One run of the application: the uploaded workbooks are consolidated by  *)
(* build_master and the returned tables rendered by build_unified_table.   *)
(***************************************************************************)
NoOut == MasterRaised("none", "none", <<>>)
NoReport == build_unified_table(NoTable, MatrixTable(<<>>, <<>>))

Files(a, y, c, p, e) == [arqaam : a, yasser : y, cfh : c, pos : p, emad : e]

First(S) == {S[1], Absent}

\* every combination of absent and readable workbooks, and every workbook an
\* extractor rejects next to absent or readable ones
Uploads ==
    Files(ArqaamOk \cup {Absent}, YasserOk \cup {Absent}, CFHOk \cup {Absent},
          PosOk \cup {Absent}, EmadOk \cup {Absent})
      \cup Files(ArqaamBad, First(YasserGood), First(CFHGood), First(PosGood), First(EmadGood))
      \cup Files(First(ArqaamGood), YasserBad, First(CFHGood), First(PosGood), First(EmadGood))
      \cup Files(First(ArqaamGood), First(YasserGood), CFHBad, First(PosGood), First(EmadGood))
      \cup Files(First(ArqaamGood), First(YasserGood), First(CFHGood), PosBad, First(EmadGood))
      \cup Files(First(ArqaamGood), First(YasserGood), First(CFHGood), First(PosGood), EmadBad)

Init ==
    /\ files \in Uploads
    /\ fx \in FxRates
    /\ pc = "start"
    /\ out = NoOut
    /\ report = NoReport
    /\ arg = IdleArg /\ fn = "none" /\ ret = IdleRet

\* engine.build_master on the uploaded files
BuildMaster ==
    /\ pc = "start"
    /\ out' = build_master(files, fx)
    /\ pc' = IF out'.exc = "none" THEN "built" ELSE "failed"
    /\ UNCHANGED <<files, fx, report, arg, fn, ret>>

\* report.export_excel / export_pdf: the unified table of the returned tables
ExportReport ==
    /\ pc = "built"
    /\ report' = build_unified_table(out.totals, out.matrix)
    /\ pc' = "exported"
    /\ UNCHANGED <<files, fx, out, arg, fn, ret>>

Next == BuildMaster \/ ExportReport

Spec == Init /\ [][Next]_vars

(***************************************************************************)
(* Claims on build_master and the report                                   *)
(***************************************************************************)
\* build_master has called the extractor of that name
Invoked(name) == pc # "start" /\ name \in Range(out.invoked)

\* build_master has returned its four tables
Built == pc \in {"built", "exported"}

\* every extractor that build_master called has returned
ExtractorsCompleted == pc # "start" /\ out.at \in {"none", "build_master"}

\* C1: whenever every invoked extractor completes without raising (a
\* positions-by-group file whose sheets are all skipped included), build_master
\* returns four tables with exactly the summary, holdings and totals columns and
\* a matrix of ticker, one column per portfolio, presence, presence_count; it
\* never fails because an extractor produced zero rows.
C1_ColumnSets ==
    ExtractorsCompleted =>
        /\ out.exc = "none"
        /\ Range(out.summary.cols) =
              {"group", "portfolio", "nav", "cash", "purchasing_power", "source", "as_of"}
        /\ Range(out.holdings.cols) = {"group", "portfolio", "ticker", "weight_ratio"}
        /\ Range(out.totals.cols) =
              {"group", "portfolio", "total_nav", "total_cash", "total_purchasing_power"}
        /\ out.matrix.lead = <<"ticker">>
        /\ out.matrix.tail = <<"presence", "presence_count">>
        /\ Range(out.matrix.pcols) = {r.portfolio : r \in Range(out.summary.rows)}
        /\ Cardinality(Range(out.matrix.pcols)) = Len(out.matrix.pcols)

NoFile == [arqaam |-> Absent, yasser |-> Absent, cfh |-> Absent, pos |-> Absent, emad |-> Absent]

\* C2: build_master without any input file returns four tables with zero rows
\* and their columns (7, 4, 5 and ticker, presence, presence_count); no output
\* is missing and no extractor is invoked.
C2_NoInput ==
    (pc # "start" /\ files = NoFile) =>
        /\ out.exc = "none"
        /\ out.invoked = <<>>
        /\ out.summary = Table(<<"group", "portfolio", "nav", "cash", "purchasing_power", "source", "as_of">>, <<>>)
        /\ out.holdings = Table(<<"group", "portfolio", "ticker", "weight_ratio">>, <<>>)
        /\ out.totals = Table(<<"group", "portfolio", "total_nav", "total_cash", "total_purchasing_power">>, <<>>)
        /\ out.matrix.lead \o out.matrix.pcols \o out.matrix.tail = <<"ticker", "presence", "presence_count">>
        /\ out.matrix.rows = <<>>

\* the run without files has returned and its report has been rendered
C2_Witness ==
    /\ pc = "exported"
    /\ files = NoFile
    /\ out.invoked = <<>>
    /\ Len(out.summary.cols) = 7
    /\ report.cols = <<>>

\* a processed sheet of the workbook lacks the cell the extractor anchors on
ConsolidatedMissing(file, processed) ==
    \E i \in processed : find_cell(file[i].df, ConsolidatedPattern) = NoCell

GroupSummaryMissing(file) ==
    \E i \in 1..Len(file) :
        /\ Lower(Strip(file[i].name)) # <<"u","n","g","r","o","u","p","e","d">>
        /\ find_cell(file[i].df, GroupSummaryPattern) = NoCell

ClientMissing(file) ==
    \E i \in 1..Len(file) :
        file[i].name = RetailSheet /\ find_cell(file[i].df, ClientPattern) = NoCell

\* the sheets extract_yasser and extract_cfh process
YasserProcessed ==
    {i \in 1..Len(files.yasser) :
        IsYasserSheet(files.yasser[i].name) \/ IsRnRSheet(files.yasser[i].name)}
CFHProcessed == 1..Len(files.cfh)

\* the run ended with an error raised by that extractor, and returned no table
RaisedBy(name) ==
    /\ out.exc # "none"
    /\ out.at = name
    /\ out.summary = NoTable /\ out.holdings = NoTable /\ out.totals = NoTable

\* C3: an extractor whose structural anchor is absent ("Consolidated" on a
\* processed sheet, the client name, "Group Summary" on a non-skipped sheet)
\* raises, and the error leaves build_master, which returns no tables.
C3_MissingAnchorRaises ==
    /\ (Invoked("extract_yasser") /\ ConsolidatedMissing(files.yasser, YasserProcessed))
          => RaisedBy("extract_yasser")
    /\ (Invoked("extract_cfh") /\ ConsolidatedMissing(files.cfh, CFHProcessed))
          => RaisedBy("extract_cfh")
    /\ (Invoked("extract_customer_position_mode_b") /\ ClientMissing(files.emad))
          => RaisedBy("extract_customer_position_mode_b")
    /\ (Invoked("extract_positions_by_group") /\ GroupSummaryMissing(files.pos))
          => RaisedBy("extract_positions_by_group")

\* the anchors of every sheet the extractor processes are present
YasserAnchored ==
    /\ YasserProcessed # {}
    /\ ~ConsolidatedMissing(files.yasser, YasserProcessed)

CFHAnchored == ~ConsolidatedMissing(files.cfh, CFHProcessed)

PositionsAnchored == ~GroupSummaryMissing(files.pos)

ClientAnchored ==
    /\ \E i \in 1..Len(files.emad) : files.emad[i].name = RetailSheet
    /\ ~ClientMissing(files.emad)

\* C4: with the anchor present, a secondary value (NAV, cash, purchasing power)
\* that cannot be located or parsed, its cell lying outside the sheet included,
\* never makes the extractor raise; the field is NaN in the returned tables.
C4_SecondaryDegrades ==
    /\ Invoked("extract_new_portfolios") => out.at # "extract_new_portfolios"
    /\ (Invoked("extract_yasser") /\ YasserAnchored) => out.at # "extract_yasser"
    /\ (Invoked("extract_cfh") /\ CFHAnchored) => out.at # "extract_cfh"
    /\ (Invoked("extract_positions_by_group") /\ PositionsAnchored)
          => out.at # "extract_positions_by_group"
    /\ (Invoked("extract_customer_position_mode_b") /\ ClientAnchored)
          => out.at # "extract_customer_position_mode_b"
    /\ (Built /\ Invoked("extract_new_portfolios")) =>
          \A r \in Range(out.summary.rows) :
              r.group = Arqaam =>
                  /\ IsNaN(CoerceVal(Iat(files.arqaam[1].df, 1, 1))) => IsNaN(r.cash)
                  /\ IsNaN(CoerceVal(Iat(files.arqaam[1].df, 4, 1))) => IsNaN(r.nav)

\* every summary row of the pair, or of the portfolio, lacks the field
PairMissing(g, p, field) ==
    \A r \in Range(out.summary.rows) : (r.group = g /\ r.portfolio = p) => IsNaN(r[field])

PortfolioMissing(p, field) ==
    \A r \in Range(out.summary.rows) : r.portfolio = p => IsNaN(r[field])

\* C5: when cash (or NAV, or purchasing power) is NaN in every summary row of a
\* (group, portfolio) pair, the pair's totals row carries NaN for that total and
\* the report shows the field blank, never 0 or "0.00".
C5_MissingStaysBlank ==
    /\ Built =>
          \A t \in Range(out.totals.rows) :
              /\ PairMissing(t.group, t.portfolio, "nav") => IsNaN(t.total_nav)
              /\ PairMissing(t.group, t.portfolio, "cash") => IsNaN(t.total_cash)
              /\ PairMissing(t.group, t.portfolio, "purchasing_power")
                    => IsNaN(t.total_purchasing_power)
    /\ pc = "exported" =>
          \A k \in 1..Len(report.cols) :
              /\ PortfolioMissing(report.cols[k], "nav") => report.nav[k] = <<>>
              /\ PortfolioMissing(report.cols[k], "cash") => report.cash[k] = <<>>
              /\ PortfolioMissing(report.cols[k], "purchasing_power")
                    => report.pp[k] = <<>>

\* C6: every row of the returned holdings table has a non-empty ticker over
\* A-Z, 0-9, "-" and "_" that is no denylisted label; clean_ticker gives "" for
\* None, for empty or placeholder text and for every denylisted label, and
\* "ABC" for "ABC.CA".
C6_TickersClean ==
    /\ Built =>
          \A h \in Range(out.holdings.rows) :
              /\ Len(h.ticker) > 0
              /\ \A i \in 1..Len(h.ticker) :
                    h.ticker[i] \in UpperSet \cup Digits \cup {"-", "_"}
              /\ h.ticker \notin junk
    /\ clean_ticker(None) = <<>>
    /\ clean_ticker(Txt(<<>>)) = <<>>
    /\ \A p \in Placeholders : clean_ticker(Txt(p)) = <<>>
    /\ \A j \in junk : clean_ticker(Txt(j)) = <<>> /\ clean_ticker(Txt(Lower(j))) = <<>>
    /\ clean_ticker(Txt(<<"A","B","C",".","C","A">>)) = <<"A","B","C">>

\* "BBB.CA" of the Arqaam sheet is held as BBB, next to a consolidated sheet
\* whose "Total" and "Purchasing Power" rows are not holdings
C6_Witness ==
    /\ Built
    /\ Invoked("extract_new_portfolios") /\ Invoked("extract_cfh")
    /\ \E h \in Range(out.holdings.rows) : h.portfolio = Arqaam /\ h.ticker = <<"B","B","B">>
    /\ \E i \in 1..Len(files.cfh) :
          \E p \in DOMAIN files.cfh[i].df.cells : files.cfh[i].df.cells[p] = Txt(<<"T","o","t","a","l">>)

\* the portfolios with a holdings row for the ticker
Holders(t) == {h.portfolio : h \in {x \in Range(out.holdings.rows) : x.ticker = t}}

\* C7: in the returned matrix presence_count is the number of portfolios with a
\* holdings row for the ticker, a portfolio column is NaN exactly when the
\* portfolio does not hold the ticker, and presence is "presence_count/N" with
\* N the number of distinct portfolios of the summary.
C7_Presence ==
    Built =>
        LET m == out.matrix
            N == Cardinality({r.portfolio : r \in Range(out.summary.rows)})
        IN \A i \in 1..Len(m.rows) :
              /\ Len(m.rows[i].w) = Len(m.pcols)
              /\ m.rows[i].presence_count = Cardinality(Holders(m.rows[i].ticker) \cap Range(m.pcols))
              /\ \A k \in 1..Len(m.pcols) :
                    IsNaN(m.rows[i].w[k]) <=> m.pcols[k] \notin Holders(m.rows[i].ticker)
              /\ m.rows[i].presence = IntToChars(m.rows[i].presence_count) \o <<"/">> \o IntToChars(N)

\* a ticker held by two of three portfolios is shown as "2/3"
C7_Witness ==
    /\ Built
    /\ Len(out.matrix.pcols) = 3
    /\ \E i \in 1..Len(out.matrix.rows) :
          /\ out.matrix.rows[i].presence = <<"2","/","3">>
          /\ out.matrix.rows[i].presence_count = 2
          /\ Cardinality({k \in 1..3 : IsNaN(out.matrix.rows[i].w[k])}) = 1

\* the sum of a row's weight percentages, absent entries counted as 0
RowWeight(row) == NanSum(row.w)

\* C8: the matrix rows are in descending presence_count and, among equal
\* counts, in descending sum of the weight percentages; a ticker held by all
\* portfolios precedes a ticker held by fewer, whatever the weights.
C8_MatrixOrder ==
    Built =>
        LET rows == out.matrix.rows
        IN \A i, j \in 1..Len(rows) :
              i < j =>
                  \/ rows[i].presence_count > rows[j].presence_count
                  \/ /\ rows[i].presence_count = rows[j].presence_count
                     /\ RLeq(RowWeight(rows[j]), RowWeight(rows[i]))

\* a ticker held by every portfolio precedes a heavier ticker held by fewer,
\* and two tickers of equal count are in descending weight
C8_Witness ==
    /\ Built
    /\ \E i, j \in 1..Len(out.matrix.rows) :
          /\ i < j
          /\ out.matrix.rows[i].presence_count = Len(out.matrix.pcols)
          /\ out.matrix.rows[j].presence_count < Len(out.matrix.pcols)
          /\ RLess(RowWeight(out.matrix.rows[i]), RowWeight(out.matrix.rows[j]))
    /\ \E i, j \in 1..Len(out.matrix.rows) :
          /\ i < j
          /\ out.matrix.rows[i].presence_count = out.matrix.rows[j].presence_count
          /\ RLess(RowWeight(out.matrix.rows[j]), RowWeight(out.matrix.rows[i]))

(***************************************************************************)
(* Claims on the cell utilities                                            *)
(***************************************************************************)
\* C9: coerce_number never raises, whatever the cell holds (None, native
\* numbers, booleans, text, dates): it returns a number or NaN.
C9_CoerceNeverRaises == fn = "coerce_number" => ret.exc = "none"

\* the model value of a decimal numeral once separators and parentheses are removed
DecimalValue(s) ==
    LET m == ParseMantissa(Keep(s, Digits \cup {"."}))
    IN Norm(m.n, Pow10(m.k))

\* digits, thousands separators and at most one decimal point
NumericLooking(s) ==
    /\ Len(s) >= 1
    /\ \A i \in 1..Len(s) : s[i] \in Digits \cup {",", "."}
    /\ s[1] \in Digits
    /\ Cardinality({i \in 1..Len(s) : s[i] = "."}) <= 1

ParenNumeric(s) ==
    Len(s) >= 3 /\ Head(s) = "(" /\ Last(s) = ")" /\ NumericLooking(SubSeq(s, 2, Len(s) - 1))

\* C10: a numeral with thousands separators in parentheses coerces to the
\* negative of its value, and the same numeral without parentheses to its value.
C10_ParenNegative ==
    (fn = "coerce_number" /\ arg.t = "str") =>
        /\ ParenNumeric(arg.s) => ret = Returned(RNeg(DecimalValue(arg.s)))
        /\ NumericLooking(arg.s) => ret = Returned(DecimalValue(arg.s))

\* "(1,234.50)" has been coerced to -1234.50
C10_Witness ==
    /\ fn = "coerce_number"
    /\ arg = Txt(<<"(","1",",","2","3","4",".","5","0",")">>)
    /\ ret.val = <<-2469, 2>>

\* C11: safe_percent_to_ratio returns its argument unchanged when it lies in
\* [-1.2, 1.2], both boundaries included; otherwise the argument divided by 100
\* (12.5 gives 0.125); NaN for NaN and for None.
C11_PercentToRatio ==
    fn = "safe_percent_to_ratio" =>
        /\ ret.exc = "none"
        /\ (arg.t = "none" \/ (arg.n = 0 /\ arg.d = 0)) => ret.val = <<0, 0>>
        /\ (arg.t # "none" /\ arg.d > 0 /\ -6 * arg.d <= 5 * arg.n /\ 5 * arg.n <= 6 * arg.d)
              => ret.val = <<arg.n, arg.d>>
        /\ (arg.t # "none" /\ arg.d > 0 /\ (5 * arg.n < -6 * arg.d \/ 5 * arg.n > 6 * arg.d))
              => ret.val = Norm(arg.n, 100 * arg.d)
        /\ arg = FloatCell(<<25, 2>>) => ret.val = <<1, 8>>
        /\ arg = FloatCell(<<1, 8>>) => ret.val = <<1, 8>>

\* 1.2 has been handed over and returned as 1.2
C11_Witness ==
    /\ fn = "safe_percent_to_ratio"
    /\ arg = FloatCell(<<6, 5>>)
    /\ ret.val = <<6, 5>>

(***************************************************************************)
(* extract_new_portfolios applied to one workbook: the holdings header in  *)
(* row 5 and below it a block of rows drawn from the row kinds.            *)
(***************************************************************************)
MaxBlock == 3

\* ticker cell and weight cell of a row of the block
BlockRowKinds ==
    {Hold(Txt(<<"A","A","A">>), IntCell(30)),
     Hold(Txt(<<"B","B","B",".","C","A">>), Txt(<<"1","2",".","5","%">>)),
     Hold(Txt(<<"C","a","s","h">>), IntCell(5)),
     Hold(None, None),
     Hold(None, IntCell(3)),
     Hold(Txt(<<" ","T","o","t","a","l",NBSP>>), IntCell(100)),
     Hold(Txt(<<"T","O","T","A","L">>), None),
     Hold(Txt(<<"T","o","t","a","l","s">>), IntCell(1))}

ArqaamBlockSheet(rows) ==
    Sheet(<<"S","h","e","e","t","1">>, 6 + Len(rows), 3,
          (<<1, 0>> :> Txt(<<"C","a","s","h">>)) @@ (<<1, 1>> :> IntCell(1000))
            @@ (<<4, 0>> :> Txt(<<"T","o","t","a","l"," ","N","A","V">>)) @@ (<<4, 1>> :> IntCell(5000))
            @@ (<<5, 0>> :> Txt(<<"T","i","c","k","e","r">>)) @@ (<<5, 1>> :> Txt(<<"S","h","a","r","e","s">>))
            @@ (<<5, 2>> :> Txt(<<"%"," ","N","A","V">>))
            @@ HoldCells(6, 0, 2, rows))

ArqaamBooks ==
    {<<ArqaamBlockSheet(rows)>> : rows \in UNION {[1..n -> BlockRowKinds] : n \in 0..MaxBlock}}

ArqaamIdle == /\ files = <<>> /\ pc = "arqaam" /\ out = <<>> /\ report = <<>>

InitArqaam ==
    /\ arg \in ArqaamBooks
    /\ fx \in FxRates
    /\ fn = "none"
    /\ ret = ExtractRaised("none")
    /\ ArqaamIdle

CallExtractNewPortfolios ==
    /\ pc = "arqaam" /\ fn = "none"
    /\ fn' = "extract_new_portfolios"
    /\ ret' = extract_new_portfolios(arg, Arqaam, fx, "NEW PORTFOLIOS.xlsx")
    /\ UNCHANGED <<arg, files, fx, pc, out, report>>

NextArqaam == CallExtractNewPortfolios

SpecArqaam == InitArqaam /\ [][NextArqaam]_vars

\* the first column of the sheet row reads "total" once trimmed and lower-cased
IsTotalRow(df, r) == Iat(df, r, 0).t = "str" /\ Lower(Strip(Iat(df, r, 0).s)) = <<"t","o","t","a","l">>

\* the sheet rows of the block above the first total row (all of them without one)
RowsAboveTotal(df) ==
    {r \in 6..(df.nrows - 1) : \A q \in 6..r : ~IsTotalRow(df, q)}

\* the tickers of the valid-ticker rows among sheet rows 6..last, in sheet order
RECURSIVE TickersUpTo(_, _)
TickersUpTo(df, last) ==
    IF last < 6 THEN <<>>
    ELSE TickersUpTo(df, last - 1)
           \o (IF clean_ticker(Iat(df, last, 0)) # <<>> THEN <<clean_ticker(Iat(df, last, 0))>> ELSE <<>>)

\* C12: in the Arqaam extractor, with "total" (trimmed, any case) in the first
\* column at row N of the holdings block, the holdings hold no row from row N
\* or below, whatever those rows contain, and every valid-ticker row between
\* the header and row N, in order.
C12_CutAtTotal ==
    fn = "extract_new_portfolios" =>
        /\ ret.exc = "none"
        /\ [k \in 1..Len(ret.holdings.rows) |-> ret.holdings.rows[k].ticker]
              = TickersUpTo(arg[1].df, 5 + Cardinality(RowsAboveTotal(arg[1].df)))

\* a valid ticker above the total row is held, the valid ticker below it is not
C12_Witness ==
    /\ fn = "extract_new_portfolios"
    /\ arg[1].df.nrows = 9
    /\ Iat(arg[1].df, 6, 0) = Txt(<<"A","A","A">>)
    /\ IsTotalRow(arg[1].df, 7)
    /\ Iat(arg[1].df, 8, 0) = Txt(<<"T","o","t","a","l","s">>)
    /\ Len(ret.holdings.rows) = 1
    /\ ret.holdings.rows[1].ticker = <<"A","A","A">>

(***************************************************************************)
(* _extract_consolidated_from_sheet applied to one sheet: the anchor in    *)
(* column 1, "net" labels in column 9 above and below it, and numbers      *)
(* right of, left of and above the labels.                                 *)
(***************************************************************************)
AnchorRows == {5, 8}
NetLabelRows == {3, 7, 12}
NetLabels == (3 :> Txt(<<"I","n","t","e","r","n","e","t">>)) @@ (7 :> Txt(<<" ","N","E","T"," ","v","a","l","u","e">>))
               @@ (12 :> Txt(<<"N","e","t">>))

\* the number written at (r, c)
NumberAt(r, c) == IntCell(1000 * r + c)

\* what surrounds the label of row r: nothing; text then a number two columns
\* right; a number eleven columns right; a small number left and a number
\* above; a percentage next to it
NetSurroundings(r) ==
    {<<>>,
     (<<r, 10>> :> Txt(<<"E","G","P">>)) @@ (<<r, 11>> :> NumberAt(r, 11)),
     (<<r, 20>> :> NumberAt(r, 20)),
     (<<r, 8>> :> IntCell(7)) @@ (<<r - 1, 9>> :> NumberAt(r - 1, 9)),
     (<<r, 10>> :> Txt(<<"5","0","%">>))}

RECURSIVE NetCellChoices(_)
NetCellChoices(rows) ==
    IF rows = {} THEN {<<>>}
    ELSE LET r == CHOOSE x \in rows : TRUE
         IN {(<<r, 9>> :> NetLabels[r]) @@ around @@ rest :
                around \in NetSurroundings(r), rest \in NetCellChoices(rows \ {r})}

NavSheets ==
    {Sheet(CFH, 14, 22, (<<a, 1>> :> Txt(<<"C","o","n","s","o","l","i","d","a","t","e","d">>)) @@ cells) :
        a \in AnchorRows, cells \in UNION {NetCellChoices(rows) : rows \in SUBSET NetLabelRows}}

ConsolidatedIdle == /\ files = <<>> /\ fx = NaN /\ pc = "consolidated" /\ out = <<>> /\ report = <<>>

InitConsolidated ==
    /\ arg \in NavSheets
    /\ fn = "none"
    /\ ret = [exc |-> "none", summary |-> <<>>, holdings |-> <<>>]
    /\ ConsolidatedIdle

CallExtractConsolidated ==
    /\ pc = "consolidated" /\ fn = "none"
    /\ fn' = "extract_consolidated_from_sheet"
    /\ ret' = extract_consolidated_from_sheet(arg.df, CFH, arg.name, "CFH.xlsx")
    /\ UNCHANGED <<arg, files, fx, pc, out, report>>

NextConsolidated == CallExtractConsolidated

SpecConsolidated == InitConsolidated /\ [][NextConsolidated]_vars

\* the row of the anchor of the sheet
AnchorRowOf(df) ==
    CHOOSE r \in 0..(df.nrows - 1) : Iat(df, r, 1) = Txt(<<"C","o","n","s","o","l","i","d","a","t","e","d">>)

\* the rows below the anchor whose cell in column 9 is text containing "net"
NetBelowAnchor(df) ==
    {r \in (AnchorRowOf(df) + 1)..(df.nrows - 1) :
        Iat(df, r, 9).t = "str" /\ Contains(Lower(Iat(df, r, 9).s), <<"n","e","t">>)}

\* the columns right of column 9, among the given ones, with a number in row r
NumbersRight(df, r, cols) == {c \in cols : c > 9 /\ c < df.ncols /\ ~IsNaN(CoerceVal(Iat(df, r, c)))}

\* the NAV of the summary row the extractor returned
ReturnedNav == ret.summary[1].nav

\* C13 as stated: NAV is the first numeric cell right of the first "net" cell
\* of column 9 below the anchor row; without such a cell below the anchor NAV
\* is NaN, a "net" cell above the anchor being never used.
C13_NavRightOfNet ==
    (fn = "extract_consolidated_from_sheet" /\ ret.exc = "none") =>
        LET df == arg.df
            nets == NetBelowAnchor(df)
        IN IF nets = {} THEN IsNaN(ReturnedNav)
           ELSE LET r == FirstIn(nets)
                    right == NumbersRight(df, r, 0..(df.ncols - 1))
                IN right # {} => ReturnedNav = CoerceVal(Iat(df, r, FirstIn(right)))

\* C13 amended: NAV is the first numeric cell within the ten columns right of
\* the first "net" cell of column 9 below the anchor row; when these ten columns
\* hold no number NAV is what choose_nearest_numeric_threshold finds around that
\* cell (floor 1000, radius 8); without a "net" cell below the anchor NAV is NaN.
C13_NavWithinTenColumns ==
    (fn = "extract_consolidated_from_sheet" /\ ret.exc = "none") =>
        LET df == arg.df
            nets == NetBelowAnchor(df)
        IN IF nets = {} THEN IsNaN(ReturnedNav)
           ELSE LET r == FirstIn(nets)
                    right == NumbersRight(df, r, 10..19)
                IN IF right # {} THEN ReturnedNav = CoerceVal(Iat(df, r, FirstIn(right)))
                   ELSE ReturnedNav = choose_nearest_numeric_threshold(df, r, 9, <<1000, 1>>, 8)

\* "Consolidated" at (5,1), "Net" at (12,9) with its number at (12,11), and a
\* "net" label with a number above the anchor: NAV is the number of row 12
C13_Witness ==
    /\ fn = "extract_consolidated_from_sheet"
    /\ AnchorRowOf(arg.df) = 5
    /\ Iat(arg.df, 3, 9) # None /\ Iat(arg.df, 3, 11) = NumberAt(3, 11)
    /\ Iat(arg.df, 7, 9) = None
    /\ Iat(arg.df, 12, 9) = Txt(<<"N","e","t">>) /\ Iat(arg.df, 12, 11) = NumberAt(12, 11)
    /\ ReturnedNav = <<12011, 1>>

(***************************************************************************)
(* The two callers of build_master: app.py binds the arguments by keyword  *)
(* and passes the rate of its number input, the other application script   *)
(* binds its five paths by position and has no rate.                       *)
(***************************************************************************)
\* a NEW PORTFOLIOS workbook without cash and without NAV
ArqaamBlank ==
    Sheet(<<"S","h","e","e","t","1">>, 5, 2, (<<1, 0>> :> Txt(<<"C","a","s","h">>)) @@ (<<1, 1>> :> Txt(<<"t","b","d">>))
                             @@ (<<4, 0>> :> Txt(<<"T","o","t","a","l"," ","N","A","V">>)))

\* both scripts are run with the five workbooks uploaded
InitCallers ==
    /\ files \in Files(ArqaamOk \cup {<<ArqaamBlank>>}, YasserOk, CFHOk, PosOk, EmadOk)
    /\ fx \in FxRates
    /\ pc = "start"
    /\ out = NoOut
    /\ report = NoReport
    /\ arg = IdleArg /\ fn = "none" /\ ret = IdleRet

\* Process of the script that calls build_master(p_new, p_y, p_c, p_p, p_u)
ProcessPositional ==
    /\ pc = "start"
    /\ fn' = "build_master_positional"
    /\ out' = build_master_positional(files)
    /\ pc' = IF out'.exc = "none" THEN "built" ELSE "failed"
    /\ UNCHANGED <<files, fx, report, arg, ret>>

NextCallers == BuildMaster \/ ProcessPositional

SpecCallers == InitCallers /\ [][NextCallers]_vars

\* a figure times the rate when both are numbers
Scaled(v, rate) == IF IsNaN(rate) \/ IsNaN(v) THEN v ELSE RMul(v, rate)

\* the row of the Arqaam file with cash and NAV scaled, any other row as it is
ScaledRow(r, cashcol, navcol, rate) ==
    IF r.group = Arqaam
    THEN [r EXCEPT ![cashcol] = Scaled(r[cashcol], rate), ![navcol] = Scaled(r[navcol], rate)]
    ELSE r

\* the rate the caller that ran has for the user: the number input of app.py,
\* none in the script without such an input
RateOfCaller == IF fn = "build_master_positional" THEN NaN ELSE fx

\* C14: whichever caller ran build_master, its tables are those of a run
\* without multiplier, except that cash and NAV of the Arqaam summary and
\* totals rows are multiplied by the rate when one is supplied; holdings and
\* every figure of the other templates are the same.
C14_FxOnlyArqaam ==
    pc \in {"built", "failed"} =>
        LET base == build_master(files, NaN)
        IN /\ out.exc = base.exc
           /\ out.holdings = base.holdings
           /\ out.matrix = base.matrix
           /\ Len(out.summary.rows) = Len(base.summary.rows)
           /\ \A k \in 1..Len(base.summary.rows) :
                 out.summary.rows[k] = ScaledRow(base.summary.rows[k], "cash", "nav", RateOfCaller)
           /\ Len(out.totals.rows) = Len(base.totals.rows)
           /\ \A k \in 1..Len(base.totals.rows) :
                 out.totals.rows[k] = ScaledRow(base.totals.rows[k], "total_cash", "total_nav", RateOfCaller)

\* the same statement for the caller that binds by keyword
C14_KeywordCaller == fn = "none" => C14_FxOnlyArqaam

\* cash 1000 and a rate of 10 give 10000 in the summary row of the Arqaam file
C14_KeywordScaled ==
    /\ pc = "built" /\ fn = "none" /\ fx = <<10, 1>>
    /\ \E k \in 1..Len(out.summary.rows) :
          out.summary.rows[k].group = Arqaam /\ out.summary.rows[k].cash = <<10000, 1>>

(***************************************************************************)
(* trim_empty_rows applied to one frame of two columns                     *)
(***************************************************************************)
MaxTrimRows == 4

\* the rows a frame is made of: data rows, and rows whose cells are all empty
TrimRowKinds ==
    {<<Txt(<<"A","A","A">>), IntCell(5)>>,
     <<None, Txt(<<"x">>)>>,
     <<Txt(<<"B","B","B">>), None>>,
     <<None, None>>,
     <<Txt(<<" ">>), Txt(<<>>)>>}

TrimFrames ==
    {[names |-> <<"ticker", "weight">>,
      rows |-> Eager([k \in 1..Len(kinds) |-> [idx |-> k - 1, cells |-> kinds[k]]])] :
        kinds \in UNION {[1..m -> TrimRowKinds] : m \in 0..MaxTrimRows}}

TrimIdle == /\ files = <<>> /\ fx = NaN /\ pc = "trim" /\ out = <<>> /\ report = <<>>

InitTrim ==
    /\ arg \in TrimFrames
    /\ fn = "none"
    /\ ret = [names |-> <<>>, rows |-> <<>>]
    /\ TrimIdle

CallTrimEmptyRows ==
    /\ pc = "trim" /\ fn = "none"
    /\ fn' = "trim_empty_rows"
    /\ ret' = trim_empty_rows(arg)
    /\ UNCHANGED <<arg, files, fx, pc, out, report>>

NextTrim == CallTrimEmptyRows

SpecTrim == InitTrim /\ [][NextTrim]_vars

\* every cell of the row normalizes to the empty text
AllEmpty(row) == \A c \in 1..Len(row.cells) : normalize_str(row.cells[c]) = <<>>

\* the number of rows left when the trailing run of empty rows is removed
RECURSIVE TrailingCut(_)
TrailingCut(rows) ==
    IF rows = <<>> \/ ~AllEmpty(rows[Len(rows)]) THEN Len(rows)
    ELSE TrailingCut(SubSeq(rows, 1, Len(rows) - 1))

\* C15: trim_empty_rows removes the trailing run of all-empty rows and nothing
\* else: the rows before it are returned in their order, an all-empty row
\* between two rows with data included.
C15_TrimTrailingOnly ==
    fn = "trim_empty_rows" => ret.rows = SubSeq(arg.rows, 1, TrailingCut(arg.rows))

(***************************************************************************)
(* choose_nearest_numeric_threshold around the cell (1, 1) of a square     *)
(* sheet holding a few numbers                                             *)
(***************************************************************************)
MaxNumbers == 2
GridSide == 3
Radii == {1, 2}
GridCells == {<<r, c>> : r \in 0..(GridSide - 1), c \in 0..(GridSide - 1)}

\* the two numbers a cell may hold, told apart by the cell: one below the
\* floor of 1000, and one at or above it in absolute value
SmallAt(p) == IntCell(GridSide * p[1] + p[2] + 1)
BigAt(p) ==
    LET i == GridSide * p[1] + p[2]
    IN IntCell((IF i % 2 = 0 THEN 1 ELSE -1) * (1000 + i))

\* the sets of at most k cells
RECURSIVE CellSets(_)
CellSets(k) ==
    IF k = 0 THEN {{}}
    ELSE LET fewer == CellSets(k - 1)
         IN fewer \cup {w \cup {p} : w \in fewer, p \in GridCells}

\* the anchor holds its label unless a number is written there
NearestSheets ==
    UNION {{Sheet(<<"S","h","e","e","t","1">>, GridSide, GridSide,
                  [p \in where |-> IF p \in big THEN BigAt(p) ELSE SmallAt(p)]
                    @@ (<<1, 1>> :> Txt(<<"N","e","t">>))) : big \in SUBSET where} :
           where \in CellSets(MaxNumbers)}

NearestIdle == /\ files = <<>> /\ fx = NaN /\ pc = "nearest" /\ out = <<>> /\ report = <<>>

InitNearest ==
    /\ arg \in {[df |-> sh.df, radius |-> rad] : sh \in NearestSheets, rad \in Radii}
    /\ fn = "none"
    /\ ret = IdleRet
    /\ NearestIdle

CallChooseNearest ==
    /\ pc = "nearest" /\ fn = "none"
    /\ fn' = "choose_nearest_numeric_threshold"
    /\ ret' = Returned(choose_nearest_numeric_threshold(arg.df, 1, 1, MinValue, arg.radius))
    /\ UNCHANGED <<arg, files, fx, pc, out, report>>

NextNearest == CallChooseNearest

SpecNearest == InitNearest /\ [][NextNearest]_vars

\* the cells of the sheet the two loops of the search visit
Scanned(df, radius) ==
    {p \in GridCells : Abs(p[1] - 1) <= radius /\ Abs(p[2] - 1) <= radius /\ InBounds(df, p[1], p[2])}

NumberIn(df, p) == CoerceVal(Iat(df, p[1], p[2]))
Manhattan(p) == Abs(p[1] - 1) + Abs(p[2] - 1)

\* the cell of S nearest to the anchor, the first in row-major order among
\* those equally near
NearestFirst(S) ==
    CHOOSE p \in S : \A q \in S :
        \/ Manhattan(p) < Manhattan(q)
        \/ Manhattan(p) = Manhattan(q) /\ (p[1] < q[1] \/ (p[1] = q[1] /\ p[2] <= q[2]))

\* C16: among the scanned cells the value returned is that of the nearest
\* numeric cell of absolute value >= min_value, the first met in row-major
\* order on equal distance; without such a cell that of the nearest numeric
\* cell under the same tie-break; without a numeric cell NaN.
C16_NearestFirstMet ==
    fn = "choose_nearest_numeric_threshold" =>
        LET numeric == {p \in Scanned(arg.df, arg.radius) : ~IsNaN(NumberIn(arg.df, p))}
            big == {p \in numeric : RLeq(MinValue, RAbs(NumberIn(arg.df, p)))}
        IN ret.val = IF big # {} THEN NumberIn(arg.df, NearestFirst(big))
                     ELSE IF numeric # {} THEN NumberIn(arg.df, NearestFirst(numeric))
                     ELSE NaN

\* two numbers above the floor at distance 1, above and left of the anchor:
\* the one above, met first, is returned
C16_Witness ==
    /\ fn = "choose_nearest_numeric_threshold"
    /\ Iat(arg.df, 0, 1) = BigAt(<<0, 1>>) /\ Iat(arg.df, 1, 0) = BigAt(<<1, 0>>)
    /\ ret.val = <<-1001, 1>>

\* C17: the value returned is that of a cell whose Manhattan distance to the
\* anchor is at most the radius; a numeric cell at offset (radius, radius) is
\* never the one returned.
C17_WithinManhattanRadius ==
    (fn = "choose_nearest_numeric_threshold" /\ ~IsNaN(ret.val)) =>
        \E p \in GridCells : Manhattan(p) <= arg.radius /\ NumberIn(arg.df, p) = ret.val

(***************************************************************************)
(* build_presence_matrix applied to a holdings frame of a few rows over    *)
(* the portfolios CFH and Yasser                                           *)
(***************************************************************************)
MaxMatrixRows == 3

MatrixPortfolios == <<CFH, <<"Y","a","s","s","e","r">>>>
MatrixTickers == {<<"B","B","B">>, <<"A","A","A">>, <<"C","C","C">>}
MatrixWeights == {<<1, 10>>, <<1, 5>>}

MatrixHoldings ==
    UNION {[1..n -> {HoldingRow(p, p, t, w) :
                        p \in Range(MatrixPortfolios), t \in MatrixTickers, w \in MatrixWeights}] :
           n \in 0..MaxMatrixRows}

MatrixIdle == /\ files = <<>> /\ fx = NaN /\ pc = "matrix" /\ out = <<>> /\ report = <<>>

InitMatrix ==
    /\ arg \in MatrixHoldings
    /\ fn = "none"
    /\ ret = MatrixTable(<<>>, <<>>)
    /\ MatrixIdle

CallBuildPresenceMatrix ==
    /\ pc = "matrix" /\ fn = "none"
    /\ fn' = "build_presence_matrix"
    /\ ret' = build_presence_matrix(arg, MatrixPortfolios)
    /\ UNCHANGED <<arg, files, fx, pc, out, report>>

NextMatrix == CallBuildPresenceMatrix

SpecMatrix == InitMatrix /\ [][NextMatrix]_vars

\* the first row of the holdings frame naming the ticker
FirstAppearance(holdings, t) == FirstIn({k \in 1..Len(holdings) : holdings[k].ticker = t})

\* C18: two tickers of the matrix with the same presence_count and the same sum
\* of portfolio weight percentages stand in the order of their first rows in
\* holdings_df.
C18_TiesInInputOrder ==
    fn = "build_presence_matrix" =>
        \A i, j \in 1..Len(ret.rows) :
            (/\ i < j
             /\ ret.rows[i].presence_count = ret.rows[j].presence_count
             /\ NanSum(ret.rows[i].w) = NanSum(ret.rows[j].w))
            => FirstAppearance(arg, ret.rows[i].ticker) < FirstAppearance(arg, ret.rows[j].ticker)

====
